---- MODULE Spec2Model ----
(***************************************************************************)
(* Model of laibrary's update pipeline: the edit validator and the atomic  *)
(* committer (nodes/committer.py), the workflow graph with its retry loop  *)
(* (workflow.py), and the sequential message queue with its front ends     *)
(* (queue_manager.py, chat/session.py, web/server.py, chat/runner.py).     *)
(*                                                                         *)
(* Text is modelled as a sequence of tokens.  A token is either a single   *)
(* character of document text ("x", "y") or a fixed piece of a message or  *)
(* of a path ("projects/", "search_block not found").  Python's `in`,      *)
(* str.count, str.replace and str.startswith are computed on the token     *)
(* sequences the way Python computes them on characters.                   *)
(***************************************************************************)
EXTENDS Integers, Sequences, FiniteSets, TLC

VARIABLES
    store,        \* the data directory: a function from the paths that exist to their content
    commits,      \* the version-control log: a sequence of commit records
    \* the committer, called directly
    updates,      \* the list of DocumentUpdates handed to it
    cphase,       \* "input" while the list is built, then "returned" / "raised"
    cret,         \* what the call returned
    ccall,        \* which entry point was called ("none", "multi", "single")
    cfail,        \* which store operation of the call raised (0: none)
    store0,       \* the data directory when the call was made
    \* the edit validator, called directly
    econtent,     \* the content it is handed
    eupdate,      \* the DocumentUpdate it is handed
    eresults,     \* the outcomes of its evaluations so far, in order
    \* one run of the workflow graph
    pkm,          \* the PKMState threaded through the nodes
    node,         \* the node to run next ("idle": no run; "END"; "RAISED": an exception escaped)
    exc,          \* the text of the exception that escaped from the run, if one did
    hist,         \* history of the run, for stating the claims (see PHist)
    \* the message queue manager, the chat session and the front end
    messages,         \* MessageQueueManager.messages: id -> QueuedMessage
    queue,            \* MessageQueueManager.queue: the ids put and not yet got
    unfinished,       \* the queue's count of put() not yet matched by task_done()
    next_message_id,  \* MessageQueueManager.next_message_id
    tasks,            \* every task created for _process_queue, in order of creation
    worker_task,      \* MessageQueueManager.worker_task: an index of tasks, 0 for None
    _shutdown,        \* MessageQueueManager._shutdown
    sd,               \* where the caller of shutdown() is: "none", "join", "cancel", "done"
    lock,             \* app.state.lock: "free" or "held"
    clearing,         \* a /clear is inside session.end_session()
    current_project,  \* ChatSession.current_project
    has_content,      \* SessionManager.has_content()
    nimm,             \* how many immediate commands have run
    frontend          \* "web" (server.py) or "cli" (runner.py)

evars == <<econtent, eupdate, eresults>>
cvars == <<updates, cphase, cret, ccall, cfail, store0, evars>>
pvars == <<pkm, node, exc, hist>>
qvars == <<messages, queue, unfinished, next_message_id, tasks, worker_task, _shutdown,
           sd, lock, clearing, current_project, has_content, nimm, frontend>>
vars == <<store, commits, cvars, pvars, qvars>>

\* ------------------------------------------------------------------ text

None == <<>>
Some(x) == <<x>>

\* Python: sub in s (at position i)
IsInfixAt(sub, s, i) ==
    /\ i >= 1
    /\ i + Len(sub) - 1 <= Len(s)
    /\ SubSeq(s, i, i + Len(sub) - 1) = sub

\* Python: sub in s
Contains(s, sub) == \E i \in 1..(Len(s) + 1) : IsInfixAt(sub, s, i)

\* Python: s.startswith(prefix)
StartsWith(s, prefix) == IsInfixAt(prefix, s, 1)

\* Python: s.count(sub) for a non-empty sub: the non-overlapping occurrences,
\* scanning from the left.
RECURSIVE CountFrom(_, _, _)
CountFrom(s, sub, i) ==
    IF i + Len(sub) - 1 > Len(s) THEN 0
    ELSE IF IsInfixAt(sub, s, i) THEN 1 + CountFrom(s, sub, i + Len(sub))
    ELSE CountFrom(s, sub, i + 1)

Count(s, sub) == CountFrom(s, sub, 1)

\* Python: s.find(sub) + 1, for a sub that occurs in s
FirstIndex(s, sub) ==
    CHOOSE i \in 1..(Len(s) + 1) :
        /\ IsInfixAt(sub, s, i)
        /\ \A j \in 1..(i - 1) : ~IsInfixAt(sub, s, j)

\* Python: s.replace(sub, rep, 1) for a sub that occurs in s
ReplaceFirst(s, sub, rep) ==
    LET i == FirstIndex(s, sub)
    IN SubSeq(s, 1, i - 1) \o rep \o SubSeq(s, i + Len(sub), Len(s))

\* ------------------------------------------------------------------ paths and the store

PA == <<"projects/", "a", ".md">>
NB == <<"notes/", "b", ".md">>
XS == <<"notes/", "search_block not found", ".md">>

ProjectsPrefix == <<"projects/">>

\* IsolatedGitRepo.file_exists
file_exists(st, path) == path \in DOMAIN st

\* IsolatedGitRepo.get_file_content: None for a missing file
get_file_content(st, path) == IF path \in DOMAIN st THEN Some(st[path]) ELSE None

\* IsolatedGitRepo.write_file
write_file(st, path, content) ==
    [p \in DOMAIN st \cup {path} |-> IF p = path THEN content ELSE st[p]]

\* the document store's delete(path); the caller guards against a missing file
delete_file(st, path) == [p \in DOMAIN st \ {path} |-> st[p]]

\* the document store's commit(paths_changed, paths_deleted, message): one commit object
add_and_commit_multiple(log, files_written, message, files_to_delete) ==
    Append(log, [paths |-> files_written, deleted |-> files_to_delete, message |-> message])

\* the text of an OSError raised by a store operation on path
IOErrorText(path) == <<"[Errno] '">> \o path \o <<"'">>

\* ------------------------------------------------------------------ edit validator

\* the diagnostics as they would be if they quoted whatever file the store holds
\* at the moment instead of the buffer
DiagnosticsOfStore(result) ==
    <<"\n\n">> \o (IF DOMAIN store # {} THEN store[CHOOSE p \in DOMAIN store : TRUE]
                    ELSE result)

\* the diagnostic tail of a not-found message: lines of the document
Diagnostics(result) == <<"\n\n">> \o result

NotFoundMsg(i, result) ==
    <<"Edit ", ToString(i), ": ", "search_block not found", " in document">>
        \o Diagnostics(result)

AmbiguousMsg(i, n) ==
    <<"Edit ", ToString(i), ": ", "search_block appears multiple times",
      " (", ToString(n), " occurrences)">>

\* _apply_edits from edit i on, with the accumulating buffer result.
\* ok: the new content; ~ok: the EditApplicationError (message, search_block).
RECURSIVE ApplyEditsFrom(_, _, _)
ApplyEditsFrom(result, edits, i) ==
    IF i > Len(edits) THEN [ok |-> TRUE, content |-> result]
    ELSE LET edit == edits[i] IN
        IF edit.search_block = <<>> THEN
            ApplyEditsFrom(result \o edit.replace_block, edits, i + 1)
        ELSE IF ~Contains(result, edit.search_block) THEN
            [ok |-> FALSE, msg |-> NotFoundMsg(i, result),
             search_block |-> edit.search_block]
        ELSE IF Count(result, edit.search_block) > 1 THEN
            [ok |-> FALSE, msg |-> AmbiguousMsg(i, Count(result, edit.search_block)),
             search_block |-> edit.search_block]
        ELSE
            ApplyEditsFrom(ReplaceFirst(result, edit.search_block, edit.replace_block),
                           edits, i + 1)

\* _apply_edits as it would be if every edit were matched against the content
\* the call was handed instead of the accumulating buffer
RECURSIVE ApplyEachOnOriginal(_, _, _, _)
ApplyEachOnOriginal(content, result, edits, i) ==
    IF i > Len(edits) THEN [ok |-> TRUE, content |-> result]
    ELSE LET edit == edits[i] IN
        IF edit.search_block = <<>> THEN
            ApplyEachOnOriginal(content, result \o edit.replace_block, edits, i + 1)
        ELSE IF ~Contains(content, edit.search_block) \/ ~Contains(result, edit.search_block)
        THEN [ok |-> FALSE, msg |-> NotFoundMsg(i, result),
              search_block |-> edit.search_block]
        ELSE ApplyEachOnOriginal(content,
                                 ReplaceFirst(result, edit.search_block, edit.replace_block),
                                 edits, i + 1)

ApplyEditsOnOriginal(content, update) ==
    ApplyEachOnOriginal(content, content, update.edits, 1)

_apply_edits(content, update) == ApplyEditsFrom(content, update.edits, 1)

\* ------------------------------------------------------------------ atomic committer

\* validated_contents[path] = content on a Python dict, which keeps the order in
\* which its keys were first inserted
DictSet(d, path, content) ==
    IF \E i \in 1..Len(d) : d[i].path = path
    THEN [i \in 1..Len(d) |->
            IF d[i].path = path THEN [path |-> path, content |-> content] ELSE d[i]]
    ELSE Append(d, [path |-> path, content |-> content])

\* the tuple (success, error_message, failed_file_index) _commit_multi returns
Ret(success, error, failed_idx) ==
    [success |-> success, error |-> error, failed_idx |-> failed_idx]

CannotDeleteMsg(path) == <<"Cannot delete ">> \o path \o <<": file not found">>

NotExistMsg(path) ==
    <<"File '">> \o path \o <<"' does not exist and create_if_missing is False">>

GuardrailMsg(path) ==
    <<"New files can only be created under 'projects/' directory. Cannot create: ">>
        \o path

UnexpectedMsg(path, e) == <<"Unexpected error validating ">> \o path \o <<": ">> \o e

WriteCommitFailedMsg(e) == <<"Failed to write/commit changes: ">> \o e

\* Step 1 of _commit_multi: the validation loop from update idx on (idx counts from
\* 1; the index the code reports is idx - 1).  The one store read of update idx is
\* store operation number idx of the call; fail names the operation that raises.
\* kind names the branch that returned the failure ("mismatch": the except
\* EditApplicationError of lines 133-135).
RECURSIVE ValidateFrom(_, _, _, _, _, _)
ValidateFrom(st, ups, idx, vc, ftd, fail) ==
    IF idx > Len(ups) THEN
        [ok |-> TRUE, validated_contents |-> vc, files_to_delete |-> ftd]
    ELSE LET update == ups[idx] IN
        IF fail = idx THEN
            [ok |-> FALSE, kind |-> "unexpected",
             ret |-> Ret(FALSE,
                         UnexpectedMsg(update.target_file, IOErrorText(update.target_file)),
                         Some(idx - 1))]
        ELSE IF update.delete_file THEN
            IF ~file_exists(st, update.target_file) THEN
                [ok |-> FALSE, kind |-> "delete_missing",
                 ret |-> Ret(FALSE, CannotDeleteMsg(update.target_file), Some(idx - 1))]
            ELSE ValidateFrom(st, ups, idx + 1, vc, Append(ftd, update.target_file), fail)
        ELSE
            LET existing_content == get_file_content(st, update.target_file) IN
            IF existing_content = None /\ ~update.create_if_missing THEN
                [ok |-> FALSE, kind |-> "missing",
                 ret |-> Ret(FALSE, NotExistMsg(update.target_file), Some(idx - 1))]
            ELSE IF existing_content = None
                    /\ ~StartsWith(update.target_file, ProjectsPrefix) THEN
                [ok |-> FALSE, kind |-> "guardrail",
                 ret |-> Ret(FALSE, GuardrailMsg(update.target_file), Some(idx - 1))]
            ELSE
                LET r == _apply_edits(IF existing_content = None THEN <<>>
                                      ELSE existing_content[1], update)
                IN IF ~r.ok THEN [ok |-> FALSE, kind |-> "mismatch",
                                  ret |-> Ret(FALSE, r.msg, Some(idx - 1))]
                   ELSE ValidateFrom(st, ups, idx + 1,
                                     DictSet(vc, update.target_file, r.content), ftd, fail)

Op(op, path, content) == [op |-> op, path |-> path, content |-> content]

\* Steps 2 to 4 of _commit_multi as the list of operations it performs, in order
ApplyOps(vc, ftd) ==
    [i \in 1..Len(ftd) |-> Op("delete", ftd[i], <<>>)]
    \o [i \in 1..Len(vc) |-> Op("write", vc[i].path, vc[i].content)]
    \o <<Op("commit", <<>>, <<>>)>>
    \o [i \in 1..Len(ftd) |-> Op("cache_remove", ftd[i], <<>>)]
    \o [i \in 1..Len(vc) |-> Op("summary", vc[i].path, vc[i].content)]

\* the operations from number i on, inside the try block of lines 146-178.
\* s: the store, the log and files_written so far; base: the operations of the call
\* that came before the list.  raised: the text of the exception that ended the
\* block, if one did.
RECURSIVE RunOps(_, _, _, _, _, _, _)
RunOps(ops, i, s, message, ftd, base, fail) ==
    IF i > Len(ops) THEN [store |-> s.store, commits |-> s.commits, raised |-> None]
    ELSE LET o == ops[i]
             failed == (fail = base + i)
        IN
        IF o.op = "summary" THEN
            \* generate_summary and cache.set sit in their own try: a failure is logged
            RunOps(ops, i + 1, s, message, ftd, base, fail)
        ELSE IF failed \/ (o.op = "delete" /\ ~file_exists(s.store, o.path)) THEN
            [store |-> s.store, commits |-> s.commits, raised |-> Some(IOErrorText(o.path))]
        ELSE IF o.op = "delete" THEN
            RunOps(ops, i + 1,
                   [s EXCEPT !.store = delete_file(s.store, o.path),
                             !.files_written = Append(s.files_written, o.path)],
                   message, ftd, base, fail)
        ELSE IF o.op = "write" THEN
            RunOps(ops, i + 1,
                   [s EXCEPT !.store = write_file(s.store, o.path, o.content),
                             !.files_written = Append(s.files_written, o.path)],
                   message, ftd, base, fail)
        ELSE IF o.op = "commit" THEN
            RunOps(ops, i + 1,
                   [s EXCEPT !.commits =
                        add_and_commit_multiple(s.commits, s.files_written, message, ftd)],
                   message, ftd, base, fail)
        ELSE
            \* cache.remove
            RunOps(ops, i + 1, s, message, ftd, base, fail)

\* _commit_multi as it would be with each file written as soon as its own update
\* has validated, instead of after the whole list has
RECURSIVE CommitEachFrom(_, _, _, _, _)
CommitEachFrom(st, log, ups, idx, commit_message) ==
    IF idx > Len(ups) THEN
        [store |-> st, commits |-> log, ret |-> Ret(TRUE, None, None), kind |-> "committed"]
    ELSE LET v == ValidateFrom(st, <<ups[idx]>>, 1, <<>>, <<>>, 0) IN
        IF ~v.ok THEN
            [store |-> st, commits |-> log, kind |-> v.kind,
             ret |-> Ret(FALSE, v.ret.error, Some(idx - 1))]
        ELSE LET r == RunOps(ApplyOps(v.validated_contents, v.files_to_delete), 1,
                             [store |-> st, commits |-> log, files_written |-> <<>>],
                             commit_message, v.files_to_delete, 0, 0)
             IN CommitEachFrom(r.store, r.commits, ups, idx + 1, commit_message)

CommitMultiWriteThrough(st, log, ups, commit_message, fail) ==
    CommitEachFrom(st, log, ups, 1, commit_message)

\* _commit_multi: the store and the log it leaves, and the tuple it returns
CommitMulti(st, log, ups, commit_message, fail) ==
    LET v == ValidateFrom(st, ups, 1, <<>>, <<>>, fail) IN
    IF ~v.ok THEN [store |-> st, commits |-> log, ret |-> v.ret, kind |-> v.kind]
    ELSE
        LET r == RunOps(ApplyOps(v.validated_contents, v.files_to_delete), 1,
                        [store |-> st, commits |-> log, files_written |-> <<>>],
                        commit_message, v.files_to_delete, Len(ups), fail)
        IN [store |-> r.store, commits |-> r.commits,
            kind |-> IF r.raised = None THEN "committed" ELSE "write_commit",
            ret |-> IF r.raised = None THEN Ret(TRUE, None, None)
                    ELSE Ret(FALSE, WriteCommitFailedMsg(r.raised[1]), None)]

\* the number of store operations a _commit_multi call on ups performs on st when
\* none of them raises
MultiOpCount(st, ups) ==
    LET v == ValidateFrom(st, ups, 1, <<>>, <<>>, 0) IN
    IF v.ok THEN Len(ups) + Len(ApplyOps(v.validated_contents, v.files_to_delete))
    ELSE v.ret.failed_idx[1] + 1

\* the apply phase as it would be with an await before the commit
IsAwaitBeforeCommit(o) == o.op \in {"summary", "commit"}

\* the operations of the apply phase that are awaits: generate_summary (line 167)
\* is the only one
IsAwait(o) == o.op = "summary"

\* what a _commit_multi call that is cancelled can leave behind: CancelledError is
\* raised at an await, so the operations before that await have been performed
CommitMultiCancelled(st, log, ups, commit_message) ==
    LET v == ValidateFrom(st, ups, 1, <<>>, <<>>, 0) IN
    IF ~v.ok THEN {}
    ELSE LET ops == ApplyOps(v.validated_contents, v.files_to_delete) IN
        { LET r == RunOps(SubSeq(ops, 1, i - 1), 1,
                          [store |-> st, commits |-> log, files_written |-> <<>>],
                          commit_message, v.files_to_delete, 0, 0)
          IN [store |-> r.store, commits |-> r.commits] :
            i \in {j \in DOMAIN ops : IsAwait(ops[j])} }

\* ------------------------------------------------------------------ single-file path

\* IsolatedGitRepo.add_and_commit: one commit of one path
add_and_commit(log, file_path, message, is_deletion) ==
    Append(log, [paths |-> IF is_deletion THEN <<>> ELSE <<file_path>>,
                 deleted |-> IF is_deletion THEN <<file_path>> ELSE <<>>,
                 message |-> message])

FailedToDeleteMsg(path, e) == <<"Failed to delete ">> \o path \o <<": ">> \o e

\* what a node call hands back: the store and the log it leaves, the exception that
\* escaped from it (if one did), and the state it returned otherwise
Out(st, log, raised, state) ==
    [store |-> st, commits |-> log, raised |-> raised, state |-> state]

\* _handle_single_update.  The store operations of the call are numbered in the
\* order the code performs them; fail names the one that raises.
HandleSingleUpdate(state, st, log, update, fail) ==
    IF update.delete_file THEN
        \* 1: repo.delete_file   2: repo.add_and_commit   3: cache.remove
        IF ~file_exists(st, update.target_file) THEN
            Out(st, log, None,
                [state EXCEPT !.error = CannotDeleteMsg(update.target_file)])
        ELSE IF fail = 1 THEN
            Out(st, log, None,
                [state EXCEPT !.error = FailedToDeleteMsg(update.target_file,
                                                          IOErrorText(update.target_file))])
        ELSE IF fail = 2 THEN
            Out(delete_file(st, update.target_file), log, None,
                [state EXCEPT !.error = FailedToDeleteMsg(update.target_file,
                                                          IOErrorText(update.target_file))])
        ELSE IF fail = 3 THEN
            Out(delete_file(st, update.target_file),
                add_and_commit(log, update.target_file, update.commit_message, TRUE), None,
                [state EXCEPT !.error = FailedToDeleteMsg(update.target_file,
                                                          IOErrorText(update.target_file))])
        ELSE
            Out(delete_file(st, update.target_file),
                add_and_commit(log, update.target_file, update.commit_message, TRUE), None,
                [state EXCEPT !.committed = TRUE])
    ELSE
        \* 1: repo.get_file_content   2: repo.write_file   3: repo.add_and_commit
        \* 4: generate_summary / cache.set (in a try of their own)
        IF fail = 1 THEN Out(st, log, Some(IOErrorText(update.target_file)), state)
        ELSE
        LET existing_content == get_file_content(st, update.target_file) IN
        IF existing_content = None /\ ~update.create_if_missing THEN
            Out(st, log, None, [state EXCEPT !.error = NotExistMsg(update.target_file)])
        ELSE IF existing_content = None
                /\ ~StartsWith(update.target_file, ProjectsPrefix) THEN
            Out(st, log, None, [state EXCEPT !.error = GuardrailMsg(update.target_file)])
        ELSE
            LET r == _apply_edits(IF existing_content = None THEN <<>>
                                  ELSE existing_content[1], update)
            IN
            IF ~r.ok THEN
                Out(st, log, None,
                    [state EXCEPT !.error = r.msg,
                                  !.last_edit_error = r.msg,
                                  !.failed_search_block = Some(r.search_block)])
            ELSE IF fail = 2 THEN
                Out(st, log, Some(IOErrorText(update.target_file)), state)
            ELSE IF fail = 3 THEN
                Out(write_file(st, update.target_file, r.content), log,
                    Some(IOErrorText(update.target_file)), state)
            ELSE
                Out(write_file(st, update.target_file, r.content),
                    add_and_commit(log, update.target_file, update.commit_message, FALSE),
                    None, [state EXCEPT !.committed = TRUE])

\* the store operations a _handle_single_update call can perform
SingleOpCount(update) == IF update.delete_file THEN 3 ELSE 4

\* ------------------------------------------------------------------ pipeline state

\* PKMState; a key the dict does not hold reads as None / 0 / False through .get()
InitialState(user_input, confirmation_mode) ==
    [user_input |-> user_input,
     confirmation_mode |-> confirmation_mode,
     command |-> None,
     target_project |-> None,
     note_content |-> None,
     context_files |-> <<>>,
     document_update |-> None,
     document_updates |-> None,
     update_plan |-> None,
     error |-> None,
     committed |-> FALSE,
     retry_count |-> 0,
     last_edit_error |-> None,
     failed_search_block |-> None,
     retry_file_index |-> None]

\* what the history of a run records: the retry_count the run started with, how
\* often Generate and Commit have run, how the last Commit ended ("none": it has
\* not run since the last Generate, "committed", "mismatch": an edit's search text
\* was absent or ambiguous, "other": any other failure), whether every Commit so
\* far ended in "mismatch", and the node that ran last
PHist(rc0) ==
    [rc0 |-> rc0, ngen |-> 0, ncommit |-> 0, kind |-> "none", allMismatch |-> TRUE,
     prev |-> "START"]

\* MessageQueueManager.__init__, a new ChatSession and a new lock
QIdle ==
    /\ messages = <<>>
    /\ queue = <<>>
    /\ unfinished = 0
    /\ next_message_id = 1
    /\ tasks = <<>>
    /\ worker_task = 0
    /\ _shutdown = FALSE
    /\ sd = "none"
    /\ lock = "free"
    /\ clearing = FALSE
    /\ current_project = None
    /\ has_content = FALSE
    /\ nimm = 0

\* no run of the workflow in progress
\* the edit validator has not been called
EIdle ==
    /\ econtent = <<>>
    /\ eupdate = <<>>
    /\ eresults = <<>>

PIdle ==
    /\ pkm = InitialState(<<>>, "auto")
    /\ node = "idle"
    /\ exc = None
    /\ hist = PHist(0)

\* ------------------------------------------------------------------ pipeline stages

MAX_RETRIES == 3

\* the routing as it would be if it did not look at error
ShouldContinueAlways(state) == "continue"

\* _should_continue: the routing after every stage but the committer
ShouldContinue(state) == IF state.error # None THEN "end" ELSE "continue"

RetryPhrases == {<<"search_block not found">>, <<"search_block appears multiple times">>}

\* _should_retry as it would be with the bound compared by <=
ShouldRetryInclusive(state) ==
    IF state.committed THEN "end"
    ELSE IF state.error = None THEN "end"
    ELSE IF \E p \in RetryPhrases : Contains(state.error, p) THEN
        IF state.retry_count <= MAX_RETRIES THEN "retry" ELSE "end"
    ELSE "end"

\* _should_retry: the routing after the committer
ShouldRetry(state) ==
    IF state.committed THEN "end"
    ELSE IF state.error = None THEN "end"
    ELSE IF \E p \in RetryPhrases : Contains(state.error, p) THEN
        IF state.retry_count < MAX_RETRIES THEN "retry" ELSE "end"
    ELSE "end"

\* _retry_prep as it would be if it dropped the recorded failure as well
RetryPrepForgetful(state) ==
    [state EXCEPT !.error = None,
                  !.retry_count = state.retry_count + 1,
                  !.document_update = None,
                  !.document_updates = None,
                  !.last_edit_error = None,
                  !.failed_search_block = None,
                  !.retry_file_index = None]

\* _retry_prep as it would be without the increment of retry_count
RetryPrepNoCount(state) ==
    [state EXCEPT !.error = None, !.document_update = None, !.document_updates = None]

\* _retry_prep
RetryPrep(state) ==
    [state EXCEPT !.error = None,
                  !.retry_count = state.retry_count + 1,
                  !.document_update = None,
                  !.document_updates = None]

\* str.strip() on tokens: leading and trailing " " tokens removed
RECURSIVE LStrip(_)
LStrip(s) == IF s # <<>> /\ s[1] = " " THEN LStrip(Tail(s)) ELSE s

RECURSIVE RStrip(_)
RStrip(s) ==
    IF s # <<>> /\ s[Len(s)] = " " THEN RStrip(SubSeq(s, 1, Len(s) - 1)) ELSE s

Strip(s) == LStrip(RStrip(s))

\* str.lower() on tokens
Lower(s) == [i \in 1..Len(s) |-> IF s[i] = "LIST" THEN "list" ELSE s[i]]

\* the tokens [a-zA-Z0-9_-]+ can match
NameTokens == {"a", "b", "x", "y", "list", "LIST", "projects"}

\* the length of the longest run of name tokens of s that starts at position i
RECURSIVE NameRun(_, _)
NameRun(s, i) == IF i <= Len(s) /\ s[i] \in NameTokens THEN 1 + NameRun(s, i + 1) ELSE 0

\* list_projects: the names of the files projects/*.md
list_projects(st) ==
    {SubSeq(p, 2, Len(p) - 1) : p \in {q \in DOMAIN st : StartsWith(q, ProjectsPrefix)}}

NoInputMsg == <<"No user input provided">>
EmptyInputMsg == <<"User input is empty after stripping whitespace">>
SpecifyProjectMsg == <<"Please specify a project with /project-name.">>
ProjectMissingMsg(name) == <<"Project '">> \o name \o <<"' does not exist.">>
ProvideNoteMsg(name) == <<"Please provide a note after /">> \o name

\* ingestion_node
Ingestion(state, st) ==
    LET cleaned == Strip(state.user_input) IN
    IF state.user_input = <<>> THEN [state EXCEPT !.error = NoInputMsg]
    ELSE IF cleaned = <<>> THEN [state EXCEPT !.error = EmptyInputMsg]
    ELSE IF Lower(cleaned) \in {<<"/", "list">>, <<"/", "projects">>} THEN
        [state EXCEPT !.command = <<"list">>, !.user_input = cleaned]
    ELSE IF ~(cleaned[1] = "/" /\ NameRun(cleaned, 2) > 0) THEN
        [state EXCEPT !.error = SpecifyProjectMsg]
    ELSE
        LET n == NameRun(cleaned, 2)
            project_name == SubSeq(cleaned, 2, n + 1)
            note_content == Strip(SubSeq(cleaned, n + 2, Len(cleaned)))
            target_project == <<"projects/">> \o project_name \o <<".md">>
        IN
        IF /\ ~file_exists(st, target_project)
           /\ state.confirmation_mode # "auto"
           /\ list_projects(st) # {}
        THEN [state EXCEPT !.error = ProjectMissingMsg(project_name)]
        ELSE IF note_content = <<>> THEN
            [state EXCEPT !.error = ProvideNoteMsg(project_name)]
        ELSE [state EXCEPT !.command = <<"note">>,
                           !.target_project = target_project,
                           !.note_content = note_content,
                           !.user_input = cleaned]

NoTargetMsg == <<"No target project specified">>

\* context_node
Context(state, st) ==
    IF state.error # None THEN state
    ELSE IF state.target_project = None THEN [state EXCEPT !.error = NoTargetMsg]
    ELSE [state EXCEPT !.context_files =
            IF get_file_content(st, state.target_project) = None THEN <<>>
            ELSE <<[path |-> state.target_project,
                    content |-> get_file_content(st, state.target_project)[1]]>>]

FilePlan(target_file, action) == [target_file |-> target_file, action |-> action]

UpdatePlan(file_plans, commit_message) ==
    [file_plans |-> file_plans, commit_message |-> commit_message]

PlannerFailedMsg(e) == <<"Planner failed: ">> \o e

\* planner_node; out: what agent.run produced (ok: a plan, ~ok: the exception text)
Planner(state, out) ==
    IF state.error # None THEN state
    ELSE IF out.ok THEN [state EXCEPT !.update_plan = Some(out.plan)]
    ELSE [state EXCEPT !.error = PlannerFailedMsg(out.e)]

CancelledMsg == <<"User cancelled operation">>

\* the loop of _process_confirmations from file plan i on; answers[i] is what
\* _confirm_single_file returns for file plan i
RECURSIVE ConfirmFrom(_, _, _, _, _)
ConfirmFrom(state, plan, answers, i, modified_file_plans) ==
    IF i > Len(plan.file_plans) THEN
        [state EXCEPT !.update_plan =
            Some(UpdatePlan(modified_file_plans, plan.commit_message))]
    ELSE LET file_plan == plan.file_plans[i] IN
        IF file_plan.action # "create" THEN
            ConfirmFrom(state, plan, answers, i + 1, Append(modified_file_plans, file_plan))
        ELSE IF answers[i].action = "confirm" THEN
            ConfirmFrom(state, plan, answers, i + 1, Append(modified_file_plans, file_plan))
        ELSE IF answers[i].action = "redirect" THEN
            ConfirmFrom(state, plan, answers, i + 1,
                        Append(modified_file_plans,
                               FilePlan(answers[i].redirect_to, "modify")))
        ELSE [state EXCEPT !.error = CancelledMsg]

\* confirmation_node
Confirmation(state, answers) ==
    IF state.error # None THEN state
    ELSE IF state.confirmation_mode = "auto" THEN state
    ELSE IF state.update_plan = None THEN state
    ELSE IF \A i \in 1..Len(state.update_plan[1].file_plans) :
                state.update_plan[1].file_plans[i].action # "create" THEN state
    ELSE ConfirmFrom(state, state.update_plan[1], answers, 1, <<>>)

ArchitectFailedMsg(e) == <<"Architect failed: ">> \o e

\* architect_node, line 103: update_plan.file_plans[state['retry_file_index']]
\* raises IndexError for an index the plan does not have
ArchitectRaises(state) ==
    /\ state.error = None
    /\ state.last_edit_error # None
    /\ state.retry_file_index # None
    /\ state.update_plan # None
    /\ state.retry_file_index[1] >= Len(state.update_plan[1].file_plans)

\* architect_node; out: what agent.run produced (ok: the updates, ~ok: the
\* exception text)
Architect(state, out) ==
    IF state.error # None THEN state
    ELSE IF ~out.ok THEN [state EXCEPT !.error = ArchitectFailedMsg(out.e)]
    ELSE IF state.update_plan # None THEN [state EXCEPT !.document_updates = out.updates]
    ELSE [state EXCEPT !.document_update = Some(out.updates[1])]

Digits == {ToString(n) : n \in 0..9}

ParseInt(tok) == CHOOSE n \in 0..9 : ToString(n) = tok

\* re.search(r"Edit (\d+):", error_msg): the number of the first match, if any
EditNumberIn(error_msg) ==
    LET hits == {i \in 1..(Len(error_msg) - 2) :
                    /\ error_msg[i] = "Edit "
                    /\ error_msg[i + 1] \in Digits
                    /\ error_msg[i + 2] = ": "}
    IN IF hits = {} THEN None
       ELSE Some(ParseInt(error_msg[(CHOOSE i \in hits : \A j \in hits : i <= j) + 1]))

DefaultCommitMsg == <<"Update multiple documents">>

\* the failed_search_block _handle_multi_update extracts (lines 339-357)
FailedSearchBlock(updates_, error_msg, failed_idx) ==
    IF failed_idx # None /\ Contains(error_msg, <<"search_block not found">>) THEN
        LET edits == updates_[failed_idx[1] + 1].edits
            edit_match == EditNumberIn(error_msg)
        IN IF edit_match # None /\ edits # <<>>
              /\ 0 <= edit_match[1] - 1 /\ edit_match[1] - 1 < Len(edits)
           THEN Some(edits[edit_match[1]].search_block)
           ELSE IF edits # <<>> THEN Some(edits[1].search_block)
           ELSE None
    ELSE None

\* _handle_multi_update
HandleMultiUpdate(state, st, log, updates_, fail) ==
    LET commit_message == IF state.update_plan # None
                          THEN state.update_plan[1].commit_message
                          ELSE DefaultCommitMsg
        r == CommitMulti(st, log, updates_, commit_message, fail)
    IN IF r.ret.success THEN
            Out(r.store, r.commits, None, [state EXCEPT !.committed = TRUE])
       ELSE Out(r.store, r.commits, None,
                [state EXCEPT !.error = r.ret.error,
                              !.last_edit_error = r.ret.error,
                              !.failed_search_block =
                                  FailedSearchBlock(updates_, r.ret.error, r.ret.failed_idx),
                              !.retry_file_index = r.ret.failed_idx])

NoUpdateMsg == <<"No document update to apply">>

\* committer_node
CommitterNode(state, st, log, fail) ==
    IF state.error # None THEN Out(st, log, None, state)
    ELSE IF state.document_updates # <<>> THEN
        HandleMultiUpdate(state, st, log, state.document_updates, fail)
    ELSE IF state.document_update = None THEN
        Out(st, log, None, [state EXCEPT !.error = NoUpdateMsg])
    ELSE HandleSingleUpdate(state, st, log, state.document_update[1], fail)

\* the store operations a committer_node call on state can perform
CommitterOpCount(state, st) ==
    IF state.error # None THEN 0
    ELSE IF state.document_updates # <<>> THEN MultiOpCount(st, state.document_updates)
    ELSE IF state.document_update = None THEN 0
    ELSE SingleOpCount(state.document_update[1])

\* what a committer_node call that is cancelled at one of its awaits leaves
\* behind.  The single-file path awaits generate_summary after its commit (line
\* 290); its delete branch has no await.
CommitterCancelled(state, st, log) ==
    IF state.error # None THEN {}
    ELSE IF state.document_updates # <<>> THEN
        CommitMultiCancelled(st, log, state.document_updates,
                             IF state.update_plan # None
                             THEN state.update_plan[1].commit_message
                             ELSE DefaultCommitMsg)
    ELSE IF state.document_update = None THEN {}
    ELSE IF state.document_update[1].delete_file THEN {}
    ELSE LET out == HandleSingleUpdate(state, st, log, state.document_update[1], 0)
         IN IF out.raised = None /\ out.state.committed
            THEN {[store |-> out.store, commits |-> out.commits]}
            ELSE {}

\* ------------------------------------------------------------------ committer, called directly

MaxUpdates == 2

CommitMsg == <<"update docs">>

Edit(search_block, replace_block) ==
    [search_block |-> search_block, replace_block |-> replace_block]

DocumentUpdate(target_file, edits, create_if_missing, del) ==
    [target_file |-> target_file, edits |-> edits, commit_message |-> CommitMsg,
     create_if_missing |-> create_if_missing, delete_file |-> del]

\* the edit lists the committer is exercised with: append, a search text found
\* once / not at all / twice, and pairs whose second edit depends on the first
EditLists ==
    { <<>>,
      <<Edit(<<>>, <<"y">>)>>,
      <<Edit(<<"x">>, <<"y", "y">>)>>,
      <<Edit(<<"y">>, <<"x">>)>>,
      <<Edit(<<>>, <<"y">>), Edit(<<"y">>, <<"x">>)>>,
      <<Edit(<<"x">>, <<"y", "y">>), Edit(<<"y">>, <<"x">>)>> }

CFiles == {PA, NB}

CUpdates ==
    {DocumentUpdate(f, el, c, FALSE) : f \in CFiles, el \in EditLists, c \in BOOLEAN}
    \cup {DocumentUpdate(f, <<>>, FALSE, TRUE) : f \in CFiles}

InitContents == {<<"x">>, <<"x", "y", "x">>}

InitStores == UNION {[D -> InitContents] : D \in SUBSET CFiles}

NoRet == Ret(FALSE, None, None)

CInit ==
    /\ store \in InitStores
    /\ commits = <<>>
    /\ updates = <<>>
    /\ cphase = "input"
    /\ cret = NoRet
    /\ ccall = "none"
    /\ cfail = 0
    /\ store0 = store
    /\ EIdle
    /\ PIdle
    /\ QIdle
    /\ frontend = "web"

\* the generation stage hands the committer one more update
GenUpdate ==
    /\ cphase = "input"
    /\ Len(updates) < MaxUpdates
    /\ \E u \in CUpdates : updates' = Append(updates, u)
    /\ UNCHANGED <<store, commits, cphase, cret, ccall, cfail, store0, evars, pvars,
                   qvars>>

\* a call of _commit_multi on the list
CallCommitMulti ==
    /\ cphase = "input"
    /\ \E fail \in 0..MultiOpCount(store, updates) :
        LET r == CommitMulti(store, commits, updates, CommitMsg, fail) IN
        /\ store' = r.store
        /\ commits' = r.commits
        /\ cret' = r.ret
        /\ cfail' = fail
    /\ cphase' = "returned"
    /\ ccall' = "multi"
    /\ UNCHANGED <<updates, store0, evars, pvars, qvars>>

\* a call of _handle_single_update on a list of one
CallSingleUpdate ==
    /\ cphase = "input"
    /\ Len(updates) = 1
    /\ \E fail \in 0..SingleOpCount(updates[1]) :
        LET r == HandleSingleUpdate(InitialState(<<>>, "auto"), store, commits, updates[1], fail) IN
        /\ store' = r.store
        /\ commits' = r.commits
        /\ cret' = Ret(r.state.committed, r.state.error, None)
        /\ cphase' = IF r.raised = None THEN "returned" ELSE "raised"
        /\ cfail' = fail
    /\ ccall' = "single"
    /\ UNCHANGED <<updates, store0, evars, pvars, qvars>>

CNext == GenUpdate \/ CallCommitMulti \/ CallSingleUpdate

SpecCommit == CInit /\ [][CNext]_vars

\* ------------------------------------------------------------------ claims: committer

\* update u does not validate against the store st: a delete of a missing file, a
\* missing file without create_if_missing, a new file outside projects/, or an
\* edit whose search text is absent or ambiguous
UpdateInvalid(st, u) ==
    IF u.delete_file THEN u.target_file \notin DOMAIN st
    ELSE \/ u.target_file \notin DOMAIN st /\ ~u.create_if_missing
         \/ u.target_file \notin DOMAIN st /\ ~StartsWith(u.target_file, ProjectsPrefix)
         \/ ~_apply_edits(IF u.target_file \in DOMAIN st THEN st[u.target_file] ELSE <<>>,
                          u).ok

\* validation of update k of the call fails: its read raised, or it is invalid
ValidationFailsAt(k) == cfail = k \/ UpdateInvalid(store0, updates[k])

FailingUpdates == {k \in 1..Len(updates) : ValidationFailsAt(k)}

FirstFailing == CHOOSE k \in FailingUpdates : \A j \in FailingUpdates : k <= j

\* C1: when validation of some update k fails, the committer returns with no file
\* written or deleted and no commit made, whatever the updates before k were; the
\* multi-file committer reports failure with the index of the first failing update.
\* The single-file path leaves the store and the log alone too and, when it
\* returns, returns an error.
C1_ValidationFailureWritesNothing ==
    /\ (ccall = "multi" /\ FailingUpdates # {}) =>
            /\ store = store0
            /\ commits = <<>>
            /\ ~cret.success
            /\ cret.error # None
            /\ cret.failed_idx = Some(FirstFailing - 1)
    /\ (ccall = "single" /\ UpdateInvalid(store0, updates[1])) =>
            /\ store = store0
            /\ commits = <<>>
            /\ ~cret.success
            /\ cphase = "returned" => cret.error # None

\* a multi-file call whose first update is a valid edit of an existing file and
\* whose second update fails validation
C1_Witness ==
    /\ ccall = "multi"
    /\ cphase = "returned"
    /\ Len(updates) = 2
    /\ updates[1].edits # <<>>
    /\ ~UpdateInvalid(store0, updates[1])
    /\ UpdateInvalid(store0, updates[2])
    /\ cret.failed_idx = Some(1)

\* every update of the list has had its effect on the store
TargetsApplied ==
    \A k \in 1..Len(updates) :
        IF updates[k].delete_file
        THEN \/ updates[k].target_file \notin DOMAIN store
             \/ \E j \in 1..Len(updates) :
                    ~updates[j].delete_file /\ updates[j].target_file = updates[k].target_file
        ELSE updates[k].target_file \in DOMAIN store

\* C2: however a multi-file call ends, either every target has been written or
\* deleted and exactly one commit has been made, or no file has changed and no
\* commit has been made.
C2_AllOrNothing ==
    (ccall = "multi" /\ cphase = "returned") =>
        \/ Len(commits) = 1 /\ TargetsApplied
        \/ commits = <<>> /\ store = store0

\* ------------------------------------------------------------------ one run of the workflow

MaxInitRetry == 1

\* the history counters stop counting here
Sat == MAX_RETRIES + 3

Inc(n) == IF n < Sat THEN n + 1 ELSE n

UserInputs ==
    { <<>>, <<" ">>, <<"x">>, <<"/", "LIST">>, <<"/", "a">>,
      <<" ", "/", "a", " ", "x", " ">>, <<"/", "b", " ", "y">> }

PStores ==
    { <<>>,
      PA :> <<"x">>,
      (PA :> <<"x", "y", "x">>) @@ (NB :> <<"x">>) }

AgentErrors == {<<"model error">>}

Plans ==
    { UpdatePlan(<<>>, CommitMsg),
      UpdatePlan(<<FilePlan(PA, "modify")>>, CommitMsg),
      UpdatePlan(<<FilePlan(PA, "create"), FilePlan(NB, "modify")>>, CommitMsg) }

\* a run the worker drives is given fewer agent outcomes to pick from than a run
\* on its own
QueuePlans == { UpdatePlan(<<FilePlan(PA, "modify")>>, CommitMsg) }

PlannerOutcomes ==
    {[ok |-> TRUE, plan |-> p, e |-> <<>>] :
        p \in IF tasks = <<>> THEN Plans ELSE QueuePlans}
    \cup {[ok |-> FALSE, plan |-> UpdatePlan(<<>>, <<>>), e |-> e] : e \in AgentErrors}

ConfirmationResults ==
    { [action |-> "confirm", redirect_to |-> <<>>],
      [action |-> "redirect", redirect_to |-> NB],
      [action |-> "cancel", redirect_to |-> <<>>] }

\* what the generation agent is made to return: an append, a search text that is
\* absent / found twice in "x y x", a delete, a file outside projects/, a missing
\* file whose name holds the words of an edit error
UAppend == DocumentUpdate(PA, <<Edit(<<>>, <<"y">>)>>, TRUE, FALSE)
UAbsent == DocumentUpdate(PA, <<Edit(<<>>, <<"y">>), Edit(<<"z">>, <<"x">>)>>, TRUE, FALSE)
UTwice == DocumentUpdate(PA, <<Edit(<<"x">>, <<"y">>)>>, FALSE, FALSE)
UDelete == DocumentUpdate(NB, <<>>, FALSE, TRUE)
UOutside == DocumentUpdate(NB, <<Edit(<<>>, <<"y">>)>>, TRUE, FALSE)
UNamed == DocumentUpdate(XS, <<Edit(<<"x">>, <<"y">>)>>, FALSE, FALSE)
UOutsideNamed == DocumentUpdate(XS, <<Edit(<<>>, <<"y">>)>>, TRUE, FALSE)

GenUpdateLists ==
    { <<>>, <<UAppend>>, <<UAbsent>>, <<UTwice>>, <<UNamed>>, <<UOutside>>,
      <<UOutsideNamed>>,
      <<UAppend, UAbsent>>, <<UDelete, UAppend>>, <<UDelete, UDelete>> }

QueueUpdateLists == { <<UAppend>>, <<UAppend, UAbsent>> }

ArchitectOutcomes(state) ==
    {[ok |-> TRUE, updates |-> us, e |-> <<>>] :
        us \in IF tasks # <<>> THEN QueueUpdateLists
               ELSE IF state.update_plan # None THEN GenUpdateLists
               ELSE {us \in GenUpdateLists : Len(us) = 1}}
    \cup {[ok |-> FALSE, updates |-> <<>>, e |-> e] : e \in AgentErrors}

\* the state run_workflow_with_state is called with
PInitialStates ==
    {[InitialState(ui, mode) EXCEPT !.retry_count = rc, !.document_update = du] :
        ui \in UserInputs, mode \in {"auto", "interactive"},
        rc \in 0..MaxInitRetry, du \in {None, Some(UTwice)}}

PInit ==
    /\ store \in PStores
    /\ commits = <<>>
    /\ updates = <<>>
    /\ cphase = "input"
    /\ cret = NoRet
    /\ ccall = "none"
    /\ cfail = 0
    /\ store0 = store
    /\ EIdle
    /\ pkm \in PInitialStates
    /\ node = "ingestion"
    /\ exc = None
    /\ hist = PHist(pkm.retry_count)
    /\ QIdle
    /\ frontend = "web"

\* the conditional edge after a stage: on to next, or END
Edge(state, next) == IF ShouldContinue(state) = "continue" THEN next ELSE "END"

PFrame == UNCHANGED <<store, commits, cvars, exc, qvars>>

PIngestion ==
    /\ node = "ingestion"
    /\ pkm' = Ingestion(pkm, store)
    /\ node' = Edge(pkm', "summaries")
    /\ hist' = [hist EXCEPT !.prev = "ingestion"]
    /\ PFrame

\* summaries_node: the summaries it loads are read by prompts only
PSummaries ==
    /\ node = "summaries"
    /\ pkm' = pkm
    /\ node' = Edge(pkm', "selector")
    /\ hist' = [hist EXCEPT !.prev = "summaries"]
    /\ PFrame

\* selector_node: every outcome of the agent, a failure too, only sets selected_files
PSelector ==
    /\ node = "selector"
    /\ pkm' = pkm
    /\ node' = Edge(pkm', "context")
    /\ hist' = [hist EXCEPT !.prev = "selector"]
    /\ PFrame

PContext ==
    /\ node = "context"
    /\ pkm' = Context(pkm, store)
    /\ node' = Edge(pkm', "planner")
    /\ hist' = [hist EXCEPT !.prev = "context"]
    /\ PFrame

PPlanner ==
    /\ node = "planner"
    /\ \E out \in PlannerOutcomes : pkm' = Planner(pkm, out)
    /\ node' = Edge(pkm', "confirmation")
    /\ hist' = [hist EXCEPT !.prev = "planner"]
    /\ PFrame

PConfirmation ==
    /\ node = "confirmation"
    /\ \E answers \in [1..(IF pkm.update_plan = None THEN 0
                           ELSE Len(pkm.update_plan[1].file_plans)) -> ConfirmationResults] :
            pkm' = Confirmation(pkm, answers)
    /\ node' = Edge(pkm', "architect")
    /\ hist' = [hist EXCEPT !.prev = "confirmation"]
    /\ PFrame

\* architect_node: the IndexError of line 103 escapes the node and ends the run
PArchitect ==
    /\ node = "architect"
    /\ IF ArchitectRaises(pkm) THEN
            /\ pkm' = pkm
            /\ node' = "RAISED"
            /\ exc' = Some(<<"IndexError">>)
            /\ hist' = [hist EXCEPT !.prev = "architect"]
       ELSE
            /\ \E out \in ArchitectOutcomes(pkm) : pkm' = Architect(pkm, out)
            /\ node' = Edge(pkm', "committer")
            /\ exc' = exc
            /\ hist' = [hist EXCEPT !.prev = "architect",
                                    !.ngen = IF pkm.error = None THEN Inc(@) ELSE @,
                                    !.kind = "none"]
    /\ UNCHANGED <<store, commits, cvars, qvars>>

\* how a _handle_single_update call ended
SingleKind(st, update, fail, out) ==
    IF out.raised # None THEN "raised"
    ELSE IF out.state.committed THEN "committed"
    ELSE IF /\ ~update.delete_file
            /\ \/ file_exists(st, update.target_file)
               \/ update.create_if_missing /\ StartsWith(update.target_file, ProjectsPrefix)
            /\ ~_apply_edits(IF file_exists(st, update.target_file)
                             THEN st[update.target_file] ELSE <<>>, update).ok
         THEN "mismatch"
    ELSE "other"

\* how a committer_node call ended
CommitKind(state, st, log, fail, out) ==
    IF state.error # None THEN "skipped"
    ELSE IF state.document_updates # <<>> THEN
        CommitMulti(st, log, state.document_updates, DefaultCommitMsg, fail).kind
    ELSE IF state.document_update = None THEN "no_update"
    ELSE SingleKind(st, state.document_update[1], fail, out)

\* committer_node and the conditional edge after it
PCommitter ==
    /\ node = "committer"
    /\ \E fail \in 0..CommitterOpCount(pkm, store) :
       \E out \in {CommitterNode(pkm, store, commits, fail)} :
       \E kind \in {CommitKind(pkm, store, commits, fail, out)} :
        /\ store' = out.store
        /\ commits' = out.commits
        /\ pkm' = out.state
        /\ exc' = out.raised
        /\ node' = IF out.raised # None THEN "RAISED"
                   ELSE IF ShouldRetry(out.state) = "retry" THEN "retry_prep"
                   ELSE "END"
        /\ hist' = [hist EXCEPT !.prev = "committer",
                                !.ncommit = Inc(@),
                                !.kind = kind,
                                !.allMismatch = @ /\ kind = "mismatch"]
    /\ UNCHANGED <<cvars, qvars>>

\* the graph as it would be with the edge retry_prep -> planner
PRetryPrepReplans ==
    /\ node = "retry_prep"
    /\ pkm' = RetryPrep(pkm)
    /\ node' = "planner"
    /\ hist' = [hist EXCEPT !.prev = "retry_prep"]
    /\ PFrame

PRetryPrep ==
    /\ node = "retry_prep"
    /\ pkm' = RetryPrep(pkm)
    /\ node' = "architect"
    /\ hist' = [hist EXCEPT !.prev = "retry_prep"]
    /\ PFrame

PNext ==
    \/ PIngestion
    \/ PSummaries
    \/ PSelector
    \/ PContext
    \/ PPlanner
    \/ PConfirmation
    \/ PArchitect
    \/ PCommitter
    \/ PRetryPrep

SpecPipe == PInit /\ [][PNext]_vars

Nodes ==
    {"ingestion", "summaries", "selector", "context", "planner", "confirmation",
     "architect", "committer", "retry_prep", "END", "RAISED"}

\* ainvoke runs the node the graph points at and moves on to the next one
NodeAdvances == node \notin {"END", "RAISED", "idle"} /\ node' \in Nodes

\* ainvoke keeps running nodes until the graph reaches END or a node raises: every
\* step of PNext moves node, so a run that could move it for ever on does move it
SpecPipeFair == PInit /\ [][PNext]_vars /\ WF_node(NodeAdvances)

\* ------------------------------------------------------------------ claims about the workflow

\* the run was ended by the retry decision, and every Commit of it failed on an
\* edit whose search text was absent or ambiguous
EndedOnMismatches ==
    /\ node = "END"
    /\ hist.prev = "committer"
    /\ hist.allMismatch

\* C5 as stated: a run (started with retry_count 0) in which every Commit attempt
\* fails with a retryable edit-validation error reaches its terminal failure after
\* exactly MAX_RETRIES consecutive failures, with the error set.
C5_FailsAfterMaxRetriesFailures ==
    (EndedOnMismatches /\ hist.rc0 = 0) =>
        /\ hist.ncommit = MAX_RETRIES
        /\ pkm.error # None
        /\ ~pkm.committed

\* C5 amended: such a run is ended by the retry decision after exactly MAX_RETRIES
\* retries, which is MAX_RETRIES + 1 consecutive failed Commit attempts less the
\* retry_count the run started with, and it ends with the error set and committed
\* false.
C5_FailsAfterMaxRetriesRetries ==
    (EndedOnMismatches /\ hist.rc0 <= MAX_RETRIES) =>
        /\ hist.ncommit = MAX_RETRIES + 1 - hist.rc0
        /\ pkm.retry_count = MAX_RETRIES
        /\ pkm.error # None
        /\ ~pkm.committed

C5_Witness ==
    /\ EndedOnMismatches
    /\ hist.rc0 = 0
    /\ hist.ncommit = MAX_RETRIES + 1
    /\ \E p \in RetryPhrases : Contains(pkm.error, p)

C7_RetryOnlyOnMismatch ==
    /\ node = "retry_prep" => hist.kind = "mismatch"
    /\ (node = "END" /\ hist.prev = "committer" /\ hist.kind \notin {"mismatch", "committed"})
            => pkm.error # None

\* ------------------------------------------------------------------ message queue and worker

MaxMsgs == 2

MaxImmediate == 1

\* QueuedMessage as enqueue_message creates it.  run_error is history: the error of
\* the final state of the message's workflow run.
QueuedMessage(message_id, content) ==
    [message_id |-> message_id, content |-> content, status |-> "queued",
     error |-> None, result |-> None, run_error |-> None]

\* a task running _process_queue: pc is "start" (created, not yet run), "get" (in
\* wait_for(queue.get())), "send" (in session.send_message) or "done"; cancel: a
\* cancel() of it is pending or was delivered
Task(pc) == [pc |-> pc, msg |-> 0, cancel |-> FALSE]

\* line 72 as it would be without the test of the task
StartsWorkerAlways(ts, wt) == TRUE

\* enqueue_message, line 72: self.worker_task is None or self.worker_task.done()
StartsWorker(ts, wt) == wt = 0 \/ ts[wt].pc = "done"

\* queue.get() as it would be on a LIFO queue
QueueGetNewest(q) == q[Len(q)]

\* asyncio.Queue.get(): the oldest id
QueueGet(q) == Head(q)

\* a get() that would leave the id in the queue
QueueKept(q, id) == q

QueueWithout(q, id) == SelectSeq(q, LAMBDA x : x # id)

\* line 91 left out
MarkProcessingSkipped(msg) == msg

\* line 91: msg.status = MessageStatus.PROCESSING
MarkProcessing(msg) == [msg EXCEPT !.status = "processing"]

\* the position of the first " " token of s, 0 if there is none
FirstSpace(s) ==
    IF \E i \in 1..Len(s) : s[i] = " "
    THEN CHOOSE i \in 1..Len(s) : s[i] = " " /\ \A j \in 1..(i - 1) : s[j] # " "
    ELSE 0

\* send_message on a message the front end queued, up to its first await:
\* project: the current_project it leaves; run: it goes on into _add_note and the
\* workflow, with user_input; otherwise it answers without the workflow
SendQueued(content, project) ==
    LET stripped == Strip(content)
        k == FirstSpace(stripped)
    IN
    IF stripped # <<>> /\ stripped[1] = "/" /\ k > 0 THEN
        LET project_name == SubSeq(stripped, 2, k - 1)
            note_content == SubSeq(stripped, k + 1, Len(stripped))
        IN [project |-> project_name, run |-> project_name # <<>>,
            user_input |-> <<"/">> \o project_name \o <<" ">> \o note_content]
    ELSE IF project # None THEN
        [project |-> project, run |-> TRUE,
         user_input |-> <<"/">> \o project \o <<" ">> \o stripped]
    ELSE [project |-> project, run |-> FALSE, user_input |-> <<>>]

\* the dict _add_note returns for the final state of the workflow
AddNoteResult(state) ==
    [response |-> IF state.error # None THEN <<"Error: ">> \o state.error
                  ELSE IF state.committed THEN <<"Changes committed.">>
                  ELSE <<"No changes were made.">>,
     updated_docs |-> state.committed]

ReplyResult == [response |-> <<"reply">>, updated_docs |-> FALSE]

\* lines 93-104 as they would be if a failure recorded the status alone
FinishedWithoutError(msg, raised, result, run_error) ==
    IF raised # None
    THEN [msg EXCEPT !.status = "failed", !.run_error = run_error]
    ELSE [msg EXCEPT !.status = "completed", !.result = Some(result),
                     !.run_error = run_error]

\* lines 93-104: what the worker records on the message when send_message ends
Finished(msg, raised, result, run_error) ==
    IF raised # None
    THEN [msg EXCEPT !.status = "failed", !.error = raised[1], !.run_error = run_error]
    ELSE [msg EXCEPT !.status = "completed", !.result = Some(result),
                     !.run_error = run_error]

QContents == { <<"/", "a", " ", "x">>, <<"x">> }

QStores == { PA :> <<"x">> }

QInit ==
    /\ store \in QStores
    /\ commits = <<>>
    /\ updates = <<>>
    /\ cphase = "input"
    /\ cret = NoRet
    /\ ccall = "none"
    /\ cfail = 0
    /\ store0 = store
    /\ EIdle
    /\ PIdle
    /\ QIdle
    /\ frontend \in {"web", "cli"}

\* the REPL of the CLI reads its next line only when it is not inside a command
ReplReady == frontend = "cli" => (~clearing /\ sd = "none")

\* line 58 as it would be without the increment
NextIdReused(n) == n

\* enqueue_message, line 58: self.next_message_id += 1
NextId(n) == n + 1

\* enqueue_message
Enqueue(content) ==
    /\ Len(messages) < MaxMsgs
    /\ ReplReady
    /\ messages' = Append(messages, QueuedMessage(next_message_id, content))
    /\ next_message_id' = NextId(next_message_id)
    /\ queue' = Append(queue, next_message_id)
    /\ unfinished' = unfinished + 1
    /\ IF StartsWorker(tasks, worker_task)
       THEN tasks' = Append(tasks, Task("start")) /\ worker_task' = Len(tasks) + 1
       ELSE UNCHANGED <<tasks, worker_task>>
    /\ UNCHANGED <<store, commits, cvars, pvars, _shutdown, sd, lock, clearing,
                   current_project, has_content, nimm, frontend>>

NoRun ==
    /\ pkm' = InitialState(<<>>, "auto")
    /\ node' = "idle"
    /\ exc' = None
    /\ hist' = PHist(0)

\* _process_queue as it would be if its loop did not test _shutdown on entry
WorkerStartUntested(w) ==
    /\ tasks[w].pc = "start"
    /\ ~tasks[w].cancel
    /\ tasks' = [tasks EXCEPT ![w].pc = "get"]
    /\ UNCHANGED <<store, commits, cvars, pvars, messages, queue, unfinished,
                   next_message_id, worker_task, _shutdown, sd, lock, clearing,
                   current_project, has_content, nimm, frontend>>

\* _process_queue from its start to its first wait_for(queue.get())
WorkerStart(w) ==
    /\ tasks[w].pc = "start"
    /\ ~tasks[w].cancel
    /\ tasks' = [tasks EXCEPT ![w].pc = IF _shutdown THEN "done" ELSE "get"]
    /\ UNCHANGED <<store, commits, cvars, pvars, messages, queue, unfinished,
                   next_message_id, worker_task, _shutdown, sd, lock, clearing,
                   current_project, has_content, nimm, frontend>>

\* lines 83-95: the worker gets an id, marks the message and calls send_message,
\* which runs to its first await
WorkerTake(w) ==
    /\ tasks[w].pc = "get"
    /\ ~tasks[w].cancel
    /\ queue # <<>>
    /\ LET message_id == QueueGet(queue)
           r == SendQueued(messages[message_id].content, current_project)
       IN
       /\ messages' = [messages EXCEPT ![message_id] = MarkProcessing(@)]
       /\ queue' = QueueWithout(queue, message_id)
       /\ tasks' = [tasks EXCEPT ![w].pc = "send", ![w].msg = message_id]
       /\ current_project' = r.project
       /\ IF r.run
          THEN /\ pkm' = InitialState(r.user_input, "auto")
               /\ node' = "ingestion"
               /\ exc' = None
               /\ hist' = PHist(0)
          ELSE /\ pkm' = InitialState(<<>>, "auto")
               /\ node' = "reply"
               /\ exc' = None
               /\ hist' = PHist(0)
    /\ has_content' = TRUE
    /\ UNCHANGED <<store, commits, cvars, unfinished, next_message_id, worker_task,
                   _shutdown, sd, lock, clearing, nimm, frontend>>

\* lines 84-86 and 79: the get timed out on an empty queue and the loop ends
WorkerTimeout(w) ==
    /\ tasks[w].pc = "get"
    /\ ~tasks[w].cancel
    /\ queue = <<>>
    /\ _shutdown
    /\ tasks' = [tasks EXCEPT ![w].pc = "done"]
    /\ UNCHANGED <<store, commits, cvars, pvars, messages, queue, unfinished,
                   next_message_id, worker_task, _shutdown, sd, lock, clearing,
                   current_project, has_content, nimm, frontend>>

\* a node of the workflow runs inside the worker's send_message
WorkerPipeline ==
    /\ \E w \in DOMAIN tasks : tasks[w].pc = "send" /\ ~tasks[w].cancel
    /\ PNext

\* the worker as it would be if an exception of send_message, once recorded, left
\* the loop
WorkerFinishOrDie(w) ==
    /\ tasks[w].pc = "send"
    /\ ~tasks[w].cancel
    /\ node \in {"END", "RAISED", "reply"}
    /\ messages' = [messages EXCEPT ![tasks[w].msg] =
            Finished(@, IF node = "RAISED" THEN exc ELSE None,
                     IF node = "END" THEN AddNoteResult(pkm) ELSE ReplyResult,
                     IF node = "END" THEN pkm.error ELSE None)]
    /\ unfinished' = unfinished - 1
    /\ tasks' = [tasks EXCEPT ![w].pc = IF _shutdown \/ node = "RAISED"
                                        THEN "done" ELSE "get"]
    /\ NoRun
    /\ UNCHANGED <<store, commits, cvars, queue, next_message_id, worker_task,
                   _shutdown, sd, lock, clearing, current_project, has_content, nimm,
                   frontend>>

\* lines 95-108 and 79: send_message ended; the worker records the outcome, calls
\* task_done() and tests the loop condition
WorkerFinish(w) ==
    /\ tasks[w].pc = "send"
    /\ ~tasks[w].cancel
    /\ node \in {"END", "RAISED", "reply"}
    /\ messages' = [messages EXCEPT ![tasks[w].msg] =
            Finished(@, IF node = "RAISED" THEN exc ELSE None,
                     IF node = "END" THEN AddNoteResult(pkm) ELSE ReplyResult,
                     IF node = "END" THEN pkm.error ELSE None)]
    /\ unfinished' = unfinished - 1
    /\ tasks' = [tasks EXCEPT ![w].pc = IF _shutdown THEN "done" ELSE "get"]
    /\ NoRun
    /\ UNCHANGED <<store, commits, cvars, queue, next_message_id, worker_task,
                   _shutdown, sd, lock, clearing, current_project, has_content, nimm,
                   frontend>>

\* the worker as it would be if its loop caught the CancelledError and went on
WorkerCancelledGoesOn(w) ==
    /\ tasks[w].pc # "done"
    /\ tasks[w].cancel
    /\ tasks' = [tasks EXCEPT ![w].cancel = FALSE]
    /\ UNCHANGED <<store, commits, cvars, pvars, messages, queue, unfinished,
                   next_message_id, worker_task, _shutdown, sd, lock, clearing,
                   current_project, has_content, nimm, frontend>>

\* CancelledError reaches the worker at the await it is suspended in; it is not an
\* Exception, so of lines 101-113 only the finally clause runs
WorkerCancelled(w) ==
    /\ tasks[w].pc # "done"
    /\ tasks[w].cancel
    /\ tasks' = [tasks EXCEPT ![w].pc = "done"]
    /\ IF tasks[w].pc = "send"
       THEN /\ unfinished' = unfinished - 1
            /\ NoRun
            /\ \E c \in {[store |-> store, commits |-> commits]}
                        \cup (IF node = "committer"
                              THEN CommitterCancelled(pkm, store, commits) ELSE {}) :
                    store' = c.store /\ commits' = c.commits
       ELSE UNCHANGED <<unfinished, pvars, store, commits>>
    /\ UNCHANGED <<cvars, messages, queue, next_message_id,
                   worker_task, _shutdown, sd, lock, clearing, current_project,
                   has_content, nimm, frontend>>

\* shutdown(), lines 166-170
ShutdownBegin ==
    /\ sd = "none"
    /\ frontend = "cli" => ~clearing
    /\ _shutdown' = TRUE
    /\ sd' = "join"
    /\ UNCHANGED <<store, commits, cvars, pvars, messages, queue, unfinished,
                   next_message_id, tasks, worker_task, lock, clearing,
                   current_project, has_content, nimm, frontend>>

\* shutdown(), lines 170-177: join() returned or the timeout passed
ShutdownJoinEnds ==
    /\ sd = "join"
    /\ IF worker_task # 0 /\ tasks[worker_task].pc # "done"
       THEN /\ tasks' = [tasks EXCEPT ![worker_task].cancel = TRUE]
            /\ sd' = "cancel"
       ELSE /\ tasks' = tasks
            /\ sd' = "done"
    /\ UNCHANGED <<store, commits, cvars, pvars, messages, queue, unfinished,
                   next_message_id, worker_task, _shutdown, lock, clearing,
                   current_project, has_content, nimm, frontend>>

\* shutdown(), lines 178-181: the cancelled task has ended
ShutdownFinish ==
    /\ sd = "cancel"
    /\ \A w \in DOMAIN tasks : tasks[w].cancel => tasks[w].pc = "done"
    /\ sd' = "done"
    /\ UNCHANGED <<store, commits, cvars, pvars, messages, queue, unfinished,
                   next_message_id, tasks, worker_task, _shutdown, lock, clearing,
                   current_project, has_content, nimm, frontend>>

\* ------------------------------------------------------------------ immediate commands

ImmediateCommands == { <<"/", "use", " ", "b">>, <<"/", "list">> }

\* send_message on an immediate command (it has no await): the current_project it
\* leaves
SendImmediate(cmd, project) ==
    LET stripped == Strip(cmd) IN
    IF Lower(stripped) \in {<<"/", "list">>, <<"/", "projects">>} THEN project
    ELSE IF StartsWith(stripped, <<"/", "use", " ">>) THEN
        IF Strip(SubSeq(stripped, 4, Len(stripped))) = <<>> THEN project
        ELSE Strip(SubSeq(stripped, 4, Len(stripped)))
    ELSE IF StartsWith(stripped, <<"/", "read">>) THEN project
    ELSE IF stripped # <<>> /\ stripped[1] = "/" /\ FirstSpace(stripped) = 0
            /\ Len(stripped) > 1 THEN Tail(stripped)
    ELSE project

\* whether the front end hands the command to session.send_message: the CLI
\* lists the projects itself
ReachesSession(fe, cmd) ==
    ~(fe = "cli" /\ Lower(Strip(cmd)) \in {<<"/", "list">>, <<"/", "projects">>})

\* an immediate command: server.py takes the lock around send_message, runner.py
\* calls it directly
ImmediateCommand ==
    /\ nimm < MaxImmediate
    /\ frontend = "web" => lock = "free"
    /\ ReplReady
    /\ \E cmd \in ImmediateCommands :
        /\ current_project' = IF ReachesSession(frontend, cmd)
                              THEN SendImmediate(cmd, current_project)
                              ELSE current_project
        /\ has_content' = (has_content \/ ReachesSession(frontend, cmd))
    /\ nimm' = nimm + 1
    /\ UNCHANGED <<store, commits, cvars, pvars, messages, queue, unfinished,
                   next_message_id, tasks, worker_task, _shutdown, sd, lock, clearing,
                   frontend>>

SessionDoc == <<"sessions/", "s", ".md">>

\* /clear up to the await inside end_session(); a session without content ends
\* at once
ClearBegin ==
    /\ nimm < MaxImmediate
    /\ frontend = "web" => lock = "free"
    /\ ReplReady
    /\ nimm' = nimm + 1
    /\ IF has_content
       THEN /\ clearing' = TRUE
            /\ lock' = IF frontend = "web" THEN "held" ELSE lock
       ELSE UNCHANGED <<clearing, lock>>
    /\ UNCHANGED <<store, commits, cvars, pvars, messages, queue, unfinished,
                   next_message_id, tasks, worker_task, _shutdown, sd,
                   current_project, has_content, frontend>>

\* the rest of /clear: the session document is written and committed, a new
\* session starts and the lock is released
ClearFinish ==
    /\ clearing
    /\ store' = write_file(store, SessionDoc, <<"s">>)
    /\ commits' = add_and_commit(commits, SessionDoc, <<"session">>, FALSE)
    /\ has_content' = FALSE
    /\ clearing' = FALSE
    /\ lock' = IF frontend = "web" THEN "free" ELSE lock
    /\ UNCHANGED <<cvars, pvars, messages, queue, unfinished, next_message_id, tasks,
                   worker_task, _shutdown, sd, current_project, nimm, frontend>>

\* the pass as it would be if it popped every entry it iterates over
CleanupEveryId(msgs) == DOMAIN msgs

\* the ids one pass of _notify_clients pops from the message table.  The pass
\* reads msg.completed_at of every Completed or Failed message (line 120);
\* QueuedMessage has no such attribute, so the AttributeError ends the pass in
\* the except clause of line 127 before the pops of lines 124-125; without a
\* terminal message cleanup_ids stays empty
CleanupIds(msgs) ==
    IF \E id \in DOMAIN msgs : msgs[id].status \in {"completed", "failed"}
    THEN {}
    ELSE {id \in DOMAIN msgs : FALSE}

\* one pass of the notifier task of the web server
NotifyClients ==
    /\ frontend = "web"
    /\ messages' = [id \in DOMAIN messages \ CleanupIds(messages) |-> messages[id]]
    /\ UNCHANGED <<store, commits, cvars, pvars, queue, unfinished, next_message_id,
                   tasks, worker_task, _shutdown, sd, lock, clearing, current_project,
                   has_content, nimm, frontend>>

QNext ==
    \/ \E content \in QContents : Enqueue(content)
    \/ \E w \in DOMAIN tasks : WorkerStart(w)
    \/ \E w \in DOMAIN tasks : WorkerTake(w)
    \/ \E w \in DOMAIN tasks : WorkerTimeout(w)
    \/ WorkerPipeline
    \/ \E w \in DOMAIN tasks : WorkerFinish(w)
    \/ \E w \in DOMAIN tasks : WorkerCancelled(w)
    \/ ShutdownBegin
    \/ ShutdownJoinEnds
    \/ ShutdownFinish
    \/ ImmediateCommand
    \/ ClearBegin
    \/ ClearFinish
    \/ NotifyClients

SpecQueue == QInit /\ [][QNext]_vars

\* ------------------------------------------------------------------ claims about the queue

StatusIs(st) == {id \in DOMAIN messages : messages[id].status = st}

AliveTasks == {w \in DOMAIN tasks : tasks[w].pc # "done"}

\* C3: at no point are two messages Processing, and at most one worker task is
\* alive (so at most one workflow run driven by the queue is in progress).
C3_SingleProcessing ==
    /\ Cardinality(StatusIs("processing")) <= 1
    /\ Cardinality(AliveTasks) <= 1
    /\ node # "idle" => \E w \in AliveTasks : tasks[w].pc = "send"

C3_Witness ==
    /\ \E w \in AliveTasks :
            tasks[w].pc = "send" /\ messages[tasks[w].msg].status = "processing"
    /\ StatusIs("queued") # {}
    /\ node = "architect"

\* C4: messages start Processing in the order of their ids: whenever message j
\* has left Queued, every message with a smaller id has already been Processing
\* and has left it.
C4_FifoOrder ==
    \A i, j \in DOMAIN messages :
        (i < j /\ messages[j].status # "queued")
            => messages[i].status \in {"completed", "failed"}

C4_Witness ==
    /\ Len(messages) >= 2
    /\ messages[1].status = "completed"
    /\ messages[2].status = "processing"
    /\ node = "committer"

AllowedStatusChanges ==
    { <<"queued", "processing">>, <<"processing", "completed">>,
      <<"processing", "failed">> }

\* C8: the status of a message changes only Queued -> Processing, Processing ->
\* Completed or Processing -> Failed; Completed and Failed never change again.
C8_StatusTransitions ==
    [][\A id \in DOMAIN messages :
            messages'[id].status # messages[id].status
                => <<messages[id].status, messages'[id].status>> \in AllowedStatusChanges]_vars

C8_Witness ==
    /\ StatusIs("failed") # {}
    /\ StatusIs("completed") # {}

\* C9: a message whose workflow run ended with error set in its final state has
\* the terminal status Failed and carries the error; it is never Completed.
C9_FailedRunIsFailed ==
    \A id \in DOMAIN messages :
        messages[id].run_error # None
            => messages[id].status = "failed" /\ messages[id].error # None

\* C10: while the worker is inside session.send_message for a queued message, no
\* immediate command runs and no /clear is being handled, in either front end.
C10_ImmediateSerialized ==
    [][/\ (\E w \in DOMAIN tasks : tasks[w].pc = "send") => nimm' = nimm
       /\ ~(clearing' /\ \E w \in DOMAIN tasks' : tasks'[w].pc = "send")]_vars

\* a workflow run driven by the queue is between its first node and its end
PipelineRunning ==
    /\ \E w \in DOMAIN tasks : tasks[w].pc = "send"
    /\ node \notin {"idle", "reply", "END", "RAISED"}

\* C11: while the workflow run of a queued message is in progress no other
\* operation writes to or commits to the store; in particular the session
\* document of /clear is not written and committed during the run.
C11_NoConcurrentMutation ==
    [][PipelineRunning
          => ~(clearing /\ ~clearing' /\ <<store', commits'>> # <<store, commits>>)]_vars

\* the ids still in the queue: the messages that have not started processing
NotStarted == {queue[i] : i \in DOMAIN queue}

\* C12: after shutdown() has returned every message that had not started
\* processing is still Queued and still in the message table.
C12_ShutdownLeavesQueued ==
    sd = "done" =>
        /\ \A id \in NotStarted : id \in DOMAIN messages /\ messages[id].status = "queued"
        /\ DOMAIN messages = 1..(next_message_id - 1)

C12_Witness ==
    /\ sd = "done"
    /\ Len(tasks) = 1
    /\ tasks[1].cancel
    /\ NotStarted # {}
    /\ Len(messages) = 2

\* C13: a message that is Processing when shutdown() is called finishes: when
\* shutdown() has returned no message is left Processing.
C13_InFlightFinishes ==
    sd = "done" => StatusIs("processing") = {}

\* a step in which CancelledError ends the worker inside session.send_message
CancelledInSend ==
    \E w \in DOMAIN tasks :
        tasks[w].pc = "send" /\ tasks[w].cancel /\ tasks'[w].pc = "done"

\* C14: the cancellation of the worker never takes effect between the first
\* delete or write of the committer's apply phase and its commit: a cancelled
\* run that changed the store has also made its commit.
C14_NoCancelMidApply ==
    [][CancelledInSend =>
          (store' # store =>
              /\ Len(commits') = Len(commits) + 1
              /\ \A f \in (DOMAIN store \cup DOMAIN store') :
                    (f \notin DOMAIN store \/ f \notin DOMAIN store' \/ store[f] # store'[f])
                        => \E i \in DOMAIN commits'[Len(commits')].paths :
                                commits'[Len(commits')].paths[i] = f)]_vars

C14_Witness ==
    /\ nimm = 0
    /\ Len(messages) = 1
    /\ messages[1].status = "processing"
    /\ tasks[1].pc = "done"
    /\ tasks[1].cancel
    /\ store # store0
    /\ commits # <<>>

\* C15: shutdown() waits for the queued messages to be processed: when it has
\* returned without having had to cancel a running worker (the timeout did not
\* cut the processing short), every message enqueued before it is Completed or
\* Failed.  In the CLI every message is enqueued before shutdown() is called.
C15_ShutdownDrains ==
    (frontend = "cli" /\ sd = "done" /\ \A w \in DOMAIN tasks : ~tasks[w].cancel)
        => \A id \in DOMAIN messages : messages[id].status \in {"completed", "failed"}

\* C16: message ids are assigned at enqueue time, start at 1, increase by one
\* with each enqueue and are never reused: the ids in the table are distinct,
\* the id of the n-th message enqueued is n, and the counter never goes back.
C16_IdsNeverReused ==
    /\ [](/\ \A id \in DOMAIN messages :
                /\ messages[id].message_id = id
                /\ messages[id].message_id < next_message_id
           /\ \A i, j \in DOMAIN messages :
                i # j => messages[i].message_id # messages[j].message_id)
    /\ [][/\ next_message_id' \in {next_message_id, next_message_id + 1}
          /\ (messages' # messages /\ Len(messages') > Len(messages))
                => /\ messages'[Len(messages')].message_id = next_message_id
                   /\ next_message_id' = next_message_id + 1]_vars

C16_Witness ==
    /\ Len(messages) = 2
    /\ messages[1].message_id = 1
    /\ messages[2].message_id = 2
    /\ messages[1].status = "completed"
    /\ messages[2].status = "queued"
    /\ sd = "done"

\* the error is the guardrail's
IsGuardrailError(e) == e # None /\ e[1] = GuardrailMsg(<<>>)[1]

\* C17: every file the committer creates has a path under projects/, and an
\* update that would create a file elsewhere fails with the guardrail error,
\* writes nothing, makes no commit and is not retried.
C17_GuardrailCreate ==
    [][(node = "committer" /\ node' # node) =>
          /\ \A f \in DOMAIN store' \ DOMAIN store : StartsWith(f, ProjectsPrefix)
          /\ (pkm.error = None /\ IsGuardrailError(pkm'.error)) =>
                /\ store' = store
                /\ commits' = commits
                /\ node' = "END"]_vars

\* C18: once the commit has been made, a failure of a later enrichment step
\* does not make the operation fail: a committer_node call that made a commit
\* returns committed with no error, and the run ends.
C18_PostCommitNonCritical ==
    [][(node = "committer" /\ Len(commits') > Len(commits)) =>
          /\ pkm'.committed
          /\ pkm'.error = None
          /\ node' = "END"]_vars

\* C19: stage functions never throw: no exception escapes from a node and
\* from run_workflow_with_state.
C19_StagesNeverThrow == node # "RAISED" /\ exc = None

\* the nodes that are stages of the workflow
StageNodes ==
    {"ingestion", "summaries", "selector", "context", "planner", "confirmation",
     "architect", "committer"}

\* C20: once a stage has set error no later stage runs in that run: every node
\* that is about to run sees error unset, except retry_prep, which follows the
\* retry decision; a step taken while error is set is the step of retry_prep.
C20_NoWorkAfterError ==
    /\ [](node \in StageNodes => pkm.error = None)
    /\ [][pkm.error # None => (node = "retry_prep" /\ node' = "architect"
                                /\ store' = store /\ commits' = commits)]_vars

C20_Witness ==
    /\ node = "END"
    /\ pkm.error # None
    /\ hist.prev = "planner"
    /\ hist.ngen = 0
    /\ hist.ncommit = 0

\* ------------------------------------------------------------------ edit validator, called directly

MaxLen == 3
MaxEdits == 2
MaxEvals == 2

ETokens == {"x", "y"}

SeqsUpTo(S, n) == UNION {[1..k -> S] : k \in 0..n}

\* the contents the validator is exercised with
EContents == SeqsUpTo(ETokens, MaxLen)

\* edits: an append, search texts of one token and a search text that can overlap
\* itself; replacements that remove, change and double the text
EEdits ==
    {Edit(sb, rb) : sb \in {<<>>, <<"x">>, <<"y">>, <<"x", "x">>},
                    rb \in {<<>>, <<"y">>, <<"x", "x">>}}

EUpdates == {DocumentUpdate(PA, el, FALSE, FALSE) : el \in SeqsUpTo(EEdits, MaxEdits)}

EInit ==
    /\ store = <<>>
    /\ commits = <<>>
    /\ updates = <<>>
    /\ cphase = "input"
    /\ cret = NoRet
    /\ ccall = "none"
    /\ cfail = 0
    /\ store0 = store
    /\ PIdle
    /\ QIdle
    /\ frontend = "web"
    /\ econtent \in EContents
    /\ eupdate \in EUpdates
    /\ eresults = <<>>

\* one call of _apply_edits
EApply ==
    /\ Len(eresults) < MaxEvals
    /\ eresults' = Append(eresults, _apply_edits(econtent, eupdate))
    /\ UNCHANGED <<store, commits, updates, cphase, cret, ccall, cfail, store0,
                   econtent, eupdate, pvars, qvars>>

\* the rest of the system moves on between two calls: the file is written
EWrite ==
    /\ store = <<>>
    /\ store' = write_file(store, eupdate.target_file, <<"y">>)
    /\ UNCHANGED <<commits, cvars, pvars, qvars>>

ENext == EApply \/ EWrite

SpecEdits == EInit /\ [][ENext]_vars

\* ------------------------------------------------------------------ claims about the edit validator

\* the positions at which sub occurs in s
Occurrences(s, sub) == {i \in 1..Len(s) : IsInfixAt(sub, s, i)}

\* the reference left-to-right fold over the edits, edit k seeing the output of
\* edit k - 1: an empty search text appends, a search text occurring at exactly
\* one position is replaced there, at no position is a not-found failure, at two
\* or more positions an ambiguous failure with the number of positions
RECURSIVE RefFold(_, _, _)
RefFold(buf, edits, k) ==
    IF k > Len(edits) THEN [kind |-> "content", content |-> buf]
    ELSE LET sb  == edits[k].search_block
             rb  == edits[k].replace_block
             occ == Occurrences(buf, sb)
         IN  IF sb = <<>> THEN RefFold(buf \o rb, edits, k + 1)
             ELSE IF occ = {} THEN
                 [kind |-> "not_found", index |-> k, search_block |-> sb]
             ELSE IF Cardinality(occ) > 1 THEN
                 [kind |-> "ambiguous", index |-> k, search_block |-> sb,
                  count |-> Cardinality(occ)]
             ELSE LET i == CHOOSE j \in occ : TRUE
                  IN  RefFold(SubSeq(buf, 1, i - 1) \o rb
                                \o SubSeq(buf, i + Len(sb), Len(buf)),
                              edits, k + 1)

Reference == RefFold(econtent, eupdate.edits, 1)

\* C21 (as stated): an edit whose search text occurs twice or more in the buffer it
\* is matched against always yields the ambiguous failure reporting the number of
\* occurrences; the first occurrence is never silently replaced
C21_AmbiguousAlwaysReported ==
    \A n \in DOMAIN eresults :
        Reference.kind = "ambiguous" =>
            /\ ~eresults[n].ok
            /\ eresults[n].msg = AmbiguousMsg(Reference.index, Reference.count)

\* C22: whenever no edit meets a buffer holding its search text twice or more, the
\* validator returns what the reference fold returns: the same content, or a
\* not-found failure at the same edit carrying the same search text
C22_EqualsReferenceFold ==
    \A n \in DOMAIN eresults :
        /\ Reference.kind = "content" =>
                /\ eresults[n].ok
                /\ eresults[n].content = Reference.content
        /\ Reference.kind = "not_found" =>
                /\ ~eresults[n].ok
                /\ eresults[n].search_block = Reference.search_block
                /\ StartsWith(eresults[n].msg,
                              <<"Edit ", ToString(Reference.index), ": ",
                                "search_block not found">>)

\* a second edit that matches only text the first edit produced has been applied
C22_Witness ==
    /\ eresults # <<>>
    /\ Len(eupdate.edits) = 2
    /\ eupdate.edits[1].search_block # <<>>
    /\ eupdate.edits[2].search_block # <<>>
    /\ ~Contains(econtent, eupdate.edits[2].search_block)
    /\ eresults[1].ok
    /\ eresults[1].content # econtent

PlanMatched(state) ==
    /\ state.update_plan # None
    /\ LET fps == state.update_plan[1].file_plans
           us  == state.document_updates
       IN  /\ Len(us) = Len(fps)
           /\ \A i \in DOMAIN fps :
                 Cardinality({j \in DOMAIN us :
                                 us[j].target_file = fps[i].target_file}) = 1
           /\ \A j \in DOMAIN us :
                 \E i \in DOMAIN fps : us[j].target_file = fps[i].target_file

\* C24 (as stated): in multi-file mode the committer commits only when it was
\* handed exactly one update per file plan of the plan, and none for other files
C24_CommitOnlyMatchingPlan ==
    [][(/\ node = "committer"
        /\ pkm.document_updates # <<>>
        /\ commits' # commits) => PlanMatched(pkm)]_vars

\* ------------------------------------------------------------------ claims about the message table

Elements(seq) == {seq[i] : i \in DOMAIN seq}

TargetsOf(us) == {us[j].target_file : j \in DOMAIN us}

DeletedBy(us) == {us[j].target_file : j \in {k \in DOMAIN us : us[k].delete_file}}

WrittenBy(us) == {us[j].target_file : j \in {k \in DOMAIN us : ~us[k].delete_file}}

\* what the edits of the last update of us that writes path give, applied to the
\* file as st holds it
LastWriteOf(st, us, path) ==
    LET j == CHOOSE k \in DOMAIN us :
                /\ us[k].target_file = path /\ ~us[k].delete_file
                /\ \A m \in DOMAIN us :
                      (us[m].target_file = path /\ ~us[m].delete_file) => m <= k
    IN  _apply_edits(IF file_exists(st, path) THEN st[path] ELSE <<>>, us[j])

SharedCommitMessage(state) ==
    IF state.update_plan # None THEN state.update_plan[1].commit_message
    ELSE DefaultCommitMsg

\* C26: a multi-file committer call that succeeds has made exactly one commit, and
\* whenever such a call makes a commit it is the only one, its paths are the
\* written and the deleted paths, its message is the plan's shared message, and
\* every deletion and write of the call is already in the store
C26_OneCommitForAll ==
    [][(/\ node = "committer"
        /\ pkm.error = None
        /\ pkm.document_updates # <<>>) =>
            LET us == pkm.document_updates IN
            /\ pkm'.committed => Len(commits') = Len(commits) + 1
            /\ commits' # commits =>
                /\ Len(commits') = Len(commits) + 1
                /\ SubSeq(commits', 1, Len(commits)) = commits
                /\ LET c == commits'[Len(commits')] IN
                    /\ Elements(c.paths) = TargetsOf(us)
                    /\ Elements(c.deleted) = DeletedBy(us)
                    /\ c.message = SharedCommitMessage(pkm)
                /\ \A p \in WrittenBy(us) :
                      /\ p \in DOMAIN store'
                      /\ LastWriteOf(store, us, p).ok
                      /\ store'[p] = LastWriteOf(store, us, p).content
                /\ \A p \in DeletedBy(us) \ WrittenBy(us) : p \notin DOMAIN store'
                /\ \A p \in DOMAIN store \ TargetsOf(us) :
                      p \in DOMAIN store' /\ store'[p] = store[p]]_vars

\* a run has committed a deletion and a write of two different files together
C26_Witness ==
    /\ node = "END"
    /\ pkm.committed
    /\ Len(pkm.document_updates) = 2
    /\ Len(commits) = 1
    /\ commits[1].deleted # <<>>
    /\ Elements(commits[1].paths) # Elements(commits[1].deleted)
    /\ \A p \in Elements(commits[1].deleted) : p \notin DOMAIN store

\* ------------------------------------------------------------------ claims about immediate commands

\* C27 (as stated): handling an immediate command, /clear included, changes neither
\* the files of the store nor the commit log
C27_ImmediateLeavesStore ==
    [][(\/ nimm' # nimm
        \/ clearing /\ ~clearing') => (store' = store /\ commits' = commits)]_vars

\* ------------------------------------------------------------------ claims about the retry loop

RetryPrepFields == {"error", "retry_count", "document_update", "document_updates"}

\* C28: the retry-preparation step sets error to nil, adds one to retry_count and
\* clears document_update and document_updates; every other field of the state
\* (user input, context files, plan, last error, failing search text, failing file
\* index) keeps its value, the store and the log are untouched, and the next
\* stage is Generate
C28_RetryPrepFrame ==
    [][node = "retry_prep" =>
        /\ pkm'.error = None
        /\ pkm'.retry_count = pkm.retry_count + 1
        /\ pkm'.document_update = None
        /\ pkm'.document_updates = None
        /\ DOMAIN pkm' = DOMAIN pkm
        /\ \A f \in DOMAIN pkm \ RetryPrepFields : pkm'[f] = pkm[f]
        /\ store' = store
        /\ commits' = commits
        /\ node' = "architect"]_vars

\* a multi-file run is back at Generate after retry preparation, failure detail
\* still recorded
C28_Witness ==
    /\ node = "architect"
    /\ hist.prev = "retry_prep"
    /\ pkm.update_plan # None
    /\ pkm.retry_count >= 1
    /\ pkm.last_edit_error # None
    /\ pkm.failed_search_block # None
    /\ pkm.retry_file_index # None
    /\ pkm.context_files # <<>>

\* C29 (as stated): when a run is back at Generate after an edit of the last
\* commit attempt failed to apply (not found or ambiguous, single-file or
\* multi-file), the state carries the failing search text and the index of the
\* failing file
C29_RetryCarriesFailure ==
    (/\ node = "architect"
     /\ hist.prev = "retry_prep"
     /\ hist.kind = "mismatch") =>
        /\ pkm.failed_search_block # None
        /\ pkm.retry_file_index # None

\* ------------------------------------------------------------------ claims about a failing message

\* C30: when send_message raises, the worker sets that message to failed with the
\* text of the exception, changes no other message and no id of the queue, and
\* is back at queue.get() for the next id (unless shutdown was requested)
C30_FailureIsolated ==
    [][\A w \in DOMAIN tasks :
        (/\ node = "RAISED"
         /\ tasks[w].pc = "send"
         /\ ~tasks[w].cancel
         /\ w \in DOMAIN tasks'
         /\ tasks'[w].pc # "send") =>
            LET m == tasks[w].msg IN
            /\ messages'[m].status = "failed"
            /\ messages'[m].error = exc[1]
            /\ DOMAIN messages' = DOMAIN messages
            /\ \A id \in DOMAIN messages \ {m} : messages'[id] = messages[id]
            /\ queue' = queue
            /\ ~_shutdown => tasks'[w].pc = "get"]_vars

\* the first message failed on an exception and the worker went on to the second
C30_Witness ==
    /\ Len(messages) >= 2
    /\ messages[1].status = "failed"
    /\ messages[1].error # <<>>
    /\ messages[2].status \in {"processing", "completed"}
    /\ \E w \in DOMAIN tasks : tasks[w].pc = "send" \/ tasks[w].pc = "get"

\* ------------------------------------------------------------------ claims about a message's payload

\* C31: in every state a completed message has a result and no error, a failed
\* message has an error text and no result, and a queued or processing message
\* has neither
C31_PayloadMatchesStatus ==
    \A id \in DOMAIN messages :
        LET msg == messages[id] IN
        /\ msg.status = "completed" => (msg.result # None /\ msg.error = None)
        /\ msg.status = "failed" => (msg.error # None /\ msg.result = None)
        /\ msg.status \in {"queued", "processing"} =>
                (msg.result = None /\ msg.error = None)

\* the table holds a completed message and a failed one
C31_Witness ==
    /\ \E id \in DOMAIN messages : messages[id].status = "completed"
    /\ \E id \in DOMAIN messages : messages[id].status = "failed"

\* ------------------------------------------------------------------ claims about the order of the stages

\* the node that ran last before each node of the graph may run
Predecessors(n) ==
    CASE n = "ingestion"    -> {"START"}
      [] n = "summaries"    -> {"ingestion"}
      [] n = "selector"     -> {"summaries"}
      [] n = "context"      -> {"selector"}
      [] n = "planner"      -> {"context"}
      [] n = "confirmation" -> {"planner"}
      [] n = "architect"    -> {"confirmation", "retry_prep"}
      [] n = "committer"    -> {"architect"}
      [] n = "retry_prep"   -> {"committer"}
      [] OTHER              -> {"START"} \cup StageNodes \cup {"retry_prep"}

RetryLoop == {"architect", "committer", "retry_prep"}

\* C32: the stages run in the order ingestion, context loading (summaries,
\* selector, context), planner, confirmation, architect, committer: each node is
\* entered only directly after its predecessor and with no error set, the
\* architect also after retry_prep, and once the architect has been reached no
\* earlier stage runs again
C32_FixedStageOrder ==
    /\ [](/\ (node \in StageNodes \cup {"retry_prep"}) => hist.prev \in Predecessors(node)
          /\ node \in {"architect", "committer"} => pkm.error = None)
    /\ [][(node \in RetryLoop) => (node' \in RetryLoop \cup {"END", "RAISED"})]_vars

\* the committer is about to run for the second time in a run
C32_Witness ==
    /\ node = "committer"
    /\ hist.prev = "architect"
    /\ hist.ngen = 2
    /\ hist.ncommit = 1
    /\ pkm.retry_count = 1

\* ------------------------------------------------------------------ claims about the committer's result

CommitterReturned == hist.prev = "committer" /\ node \in {"END", "retry_prep"}

\* C33 (as stated): the state the committer returns has exactly one of committed
\* and error; a committed run reports no error and a run reporting an error has
\* made no commit
C33_CommittedXorError ==
    CommitterReturned =>
        /\ pkm.committed # (pkm.error # None)
        /\ pkm.committed => commits # <<>>
        /\ pkm.error # None => commits = <<>>

\* ------------------------------------------------------------------ claims about the retry bound

\* C34: in a run started with retry_count 0, retry_count stays between 0 and
\* MAX_RETRIES, the architect and the committer each run at most MAX_RETRIES + 1
\* times, and no step lowers retry_count
C34_RetryCountBounded ==
    /\ [](hist.rc0 = 0 =>
            /\ pkm.retry_count \in 0..MAX_RETRIES
            /\ hist.ngen <= MAX_RETRIES + 1
            /\ hist.ncommit <= MAX_RETRIES + 1)
    /\ [][(node # "idle" /\ node' # "idle") => pkm'.retry_count >= pkm.retry_count]_vars

\* a run started with retry_count 0 has used every retry: the architect and the
\* committer have run MAX_RETRIES + 1 times each
C34_Witness ==
    /\ hist.rc0 = 0
    /\ hist.prev = "committer"
    /\ hist.ngen = MAX_RETRIES + 1
    /\ hist.ncommit = MAX_RETRIES + 1
    /\ pkm.retry_count = MAX_RETRIES
    /\ pkm.error # None

\* ------------------------------------------------------------------ the queue when shutdown is never called

\* the steps of the system in which shutdown() is never called
QNextLive ==
    \/ \E content \in QContents : Enqueue(content)
    \/ \E w \in DOMAIN tasks : WorkerStart(w)
    \/ \E w \in DOMAIN tasks : WorkerTake(w)
    \/ WorkerPipeline
    \/ \E w \in DOMAIN tasks : WorkerFinish(w)
    \/ ImmediateCommand
    \/ ClearBegin
    \/ ClearFinish
    \/ NotifyClients

\* the worker task is ready to run its first lines
WorkerStarts ==
    \E w \in DOMAIN tasks :
        /\ tasks[w].pc = "start"
        /\ tasks' = [tasks EXCEPT ![w].pc = "get"]

\* the worker task is ready to go on: queue.get() can return an id, or the
\* worker is inside send_message, whose nodes run one after the other, or
\* send_message has ended.  Each of these steps moves node.
WorkerAdvances ==
    /\ \E w \in DOMAIN tasks :
            \/ tasks[w].pc = "send"
            \/ tasks[w].pc = "get" /\ queue # <<>>
    /\ node' \in Nodes \cup {"idle", "reply"}

\* the event loop runs a task that is ready: the worker is not left waiting for
\* ever when it can start or go on
SpecQueueLive ==
    QInit /\ [][QNextLive]_vars /\ WF_tasks(WorkerStarts) /\ WF_node(WorkerAdvances)

\* C35: when shutdown is never called and the worker task is scheduled whenever
\* it can run, every message of the table eventually is completed or failed
C35_EveryMessageFinishes ==
    \A id \in 1..MaxMsgs :
        (id \in DOMAIN messages)
            ~> (id \in DOMAIN messages
                    /\ messages[id].status \in {"completed", "failed"})

\* every message of a full table is finished, the last one enqueued while the
\* worker was busy with an earlier one having been taken after it
C35_Witness ==
    /\ Len(messages) = MaxMsgs
    /\ \A id \in DOMAIN messages : messages[id].status \in {"completed", "failed"}
    /\ \E id \in DOMAIN messages : messages[id].status = "failed"
    /\ queue = <<>>
    /\ sd = "none"

\* ------------------------------------------------------------------ claims about the queue after shutdown

\* C36: once shutdown() has returned no message changes its status, no run of the
\* workflow is going on or started, and a message enqueued from then on is given
\* the next id and stays queued
C36_QuiescentAfterShutdown ==
    /\ [](sd = "done" =>
            /\ node = "idle"
            /\ \A w \in DOMAIN tasks : tasks[w].pc \in {"start", "done"})
    /\ [][sd = "done" =>
            /\ sd' = "done"
            /\ \A id \in DOMAIN messages :
                    id \in DOMAIN messages' /\ messages'[id] = messages[id]
            /\ \A id \in DOMAIN messages' \ DOMAIN messages :
                    /\ id = next_message_id
                    /\ messages'[id].status = "queued"]_vars

\* shutdown() has returned and a message enqueued afterwards sits in the queue,
\* the worker task created for it not yet run
C36_Witness ==
    /\ sd = "done"
    /\ \E w \in DOMAIN tasks : tasks[w].pc = "start"
    /\ queue # <<>>
    /\ messages[Len(messages)].status = "queued"

\* ------------------------------------------------------------------ claims about the project of a queued note

\* enqueue_message, with the session's current_project at the moment of the call
\* kept beside the message as history (enqueued_in); the program stores no such
\* field
EnqueueNoted(content) ==
    /\ Len(messages) < MaxMsgs
    /\ ReplReady
    /\ messages' = Append(messages, QueuedMessage(next_message_id, content)
                                        @@ [enqueued_in |-> current_project])
    /\ next_message_id' = NextId(next_message_id)
    /\ queue' = Append(queue, next_message_id)
    /\ unfinished' = unfinished + 1
    /\ IF StartsWorker(tasks, worker_task)
       THEN tasks' = Append(tasks, Task("start")) /\ worker_task' = Len(tasks) + 1
       ELSE UNCHANGED <<tasks, worker_task>>
    /\ UNCHANGED <<store, commits, cvars, pvars, _shutdown, sd, lock, clearing,
                   current_project, has_content, nimm, frontend>>

\* the steps between the enqueue of a message and the end of its processing
QNextNoted ==
    \/ \E content \in QContents : EnqueueNoted(content)
    \/ \E w \in DOMAIN tasks : WorkerStart(w)
    \/ \E w \in DOMAIN tasks : WorkerTake(w)
    \/ WorkerPipeline
    \/ \E w \in DOMAIN tasks : WorkerFinish(w)
    \/ ImmediateCommand

SpecQueueNoted == QInit /\ [][QNextNoted]_vars

\* C37 (as stated): a plain-text note enqueued while a project was the current one
\* is run against that project, whatever switched the current project between
\* the enqueue and the start of its processing
C37_NoteKeepsProject ==
    \A w \in DOMAIN tasks :
        (/\ tasks[w].pc = "send"
         /\ node = "ingestion"
         /\ messages[tasks[w].msg].enqueued_in # None
         /\ Strip(messages[tasks[w].msg].content)[1] # "/") =>
            pkm.user_input = <<"/">> \o messages[tasks[w].msg].enqueued_in
                                \o <<" ">> \o Strip(messages[tasks[w].msg].content)

\* ------------------------------------------------------------------ claims about updates of one batch

\* the updates of a batch from number k on applied one after the other, each to
\* what the ones before it left: a delete removes the file, edits are applied to
\* the file as it then is (to the empty text when it is not there)
RECURSIVE InBatchOrder(_, _, _)
InBatchOrder(st, ups, k) ==
    IF k > Len(ups) THEN [ok |-> TRUE, store |-> st]
    ELSE LET u == ups[k] IN
        IF u.delete_file THEN InBatchOrder(delete_file(st, u.target_file), ups, k + 1)
        ELSE LET r == _apply_edits(IF file_exists(st, u.target_file)
                                   THEN st[u.target_file] ELSE <<>>, u)
             IN  IF r.ok
                 THEN InBatchOrder(write_file(st, u.target_file, r.content), ups, k + 1)
                 ELSE [ok |-> FALSE, store |-> st]

\* C38 (as stated): after a multi-file call that succeeded every delete target is
\* absent and every other target holds the effect of each update that names it,
\* also when two updates of the batch name the same path
C38_EveryUpdateReflected ==
    (ccall = "multi" /\ cphase = "returned" /\ cret.success) =>
        /\ \A k \in DOMAIN updates :
                updates[k].delete_file => ~file_exists(store, updates[k].target_file)
        /\ InBatchOrder(store0, updates, 1).ok =>
                \A k \in DOMAIN updates :
                    ~updates[k].delete_file =>
                        /\ file_exists(store, updates[k].target_file)
                        /\ store[updates[k].target_file]
                             = InBatchOrder(store0, updates, 1).store[updates[k].target_file]

\* ------------------------------------------------------------------ the queue manager and shutdown()

\* the steps of the queue manager itself: enqueue_message, the worker task and
\* shutdown()
QNextManager ==
    \/ \E content \in QContents : Enqueue(content)
    \/ \E w \in DOMAIN tasks : WorkerStart(w)
    \/ \E w \in DOMAIN tasks : WorkerTake(w)
    \/ \E w \in DOMAIN tasks : WorkerTimeout(w)
    \/ WorkerPipeline
    \/ \E w \in DOMAIN tasks : WorkerFinish(w)
    \/ \E w \in DOMAIN tasks : WorkerCancelled(w)
    \/ ShutdownBegin
    \/ ShutdownJoinEnds
    \/ ShutdownFinish

\* wait_for(queue.join(), timeout) ends, by the join or by the timeout, and the
\* await of the cancelled task ends once the task has ended
ShutdownAdvances ==
    \/ sd = "join" /\ sd' \in {"cancel", "done"}
    \/ /\ sd = "cancel"
       /\ \A w \in DOMAIN tasks : tasks[w].cancel => tasks[w].pc = "done"
       /\ sd' = "done"

\* the event loop delivers a pending cancellation to the task
CancelDelivered ==
    \E w \in DOMAIN tasks :
        /\ tasks[w].cancel
        /\ tasks[w].pc # "done"
        /\ tasks' = [tasks EXCEPT ![w].pc = "done"]

SpecQueueShutdown ==
    QInit /\ [][QNextManager]_vars /\ WF_sd(ShutdownAdvances) /\ WF_tasks(CancelDelivered)

\* C39: a call of shutdown() returns, in whatever state it was made; when it
\* returns no task is inside the worker loop and the task it cancelled has ended
\* (under the CLI, whose REPL enqueues nothing meanwhile, every task has ended),
\* and no exception is pending
C39_ShutdownReturns ==
    /\ (sd = "join") ~> (sd = "done")
    /\ [][(sd # "done" /\ sd' = "done") =>
            /\ \A w \in DOMAIN tasks' : tasks'[w].pc \in {"start", "done"}
            /\ \A w \in DOMAIN tasks' : tasks'[w].cancel => tasks'[w].pc = "done"
            /\ frontend = "cli" => \A w \in DOMAIN tasks' : tasks'[w].pc = "done"
            /\ exc' = None]_vars

\* shutdown() has returned after its drain timed out: a message is left queued,
\* another was in flight when the worker was cancelled
C39_Witness ==
    /\ sd = "done"
    /\ queue # <<>>
    /\ \E w \in DOMAIN tasks : tasks[w].cancel /\ tasks[w].pc = "done"
    /\ \E id \in DOMAIN messages : messages[id].status = "processing"
====
